---- MODULE Spec2Model ----
(***************************************************************************)
(* Model of backend/utils/helper.ts: the resilient JSON extractor          *)
(* cleanAndParseJSON, its two scanning repair passes, and the markdown     *)
(* code-block normalisation applied to every parsed string.                *)
(*                                                                         *)
(* A text is a sequence of one-character strings.  A parsed JSON value is  *)
(* a record [t, s, k, a]: t is the type tag, s the characters of a string  *)
(* or number, k the keys of an object and a the elements of an array or    *)
(* the member values of an object.                                         *)
(***************************************************************************)
EXTENDS Integers, Sequences, FiniteSets, TLC

\* ------------------------------------------------------------------------
\* Characters
\* ------------------------------------------------------------------------
QUOTE == "\""
BSLASH == "\\"
LF == "\n"
CR == "\r"
TAB == "\t"
FF == "\f"
SPACE == " "
\* The backquote of a markdown fence.  A string of the model cannot hold the
\* backquote character itself; the tilde stands for it.
BTICK == "~"

\* Whitespace of the JSON grammar, as accepted by JSON.parse and as skipped
\* by getNextNonSpaceChar.
JsonWs == {SPACE, LF, CR, TAB}

\* Whitespace of the regular expression class \s and of String.trim.
RegexWs == {SPACE, LF, CR, TAB, FF}

\* Characters with a code below 0x20.
ControlChars == {LF, CR, TAB, FF}

\* The regular expression class \w, over the characters the texts of the
\* model are made of (no upper-case letter occurs in them).
WordChars == {"a", "b", "c", "d", "e", "f", "g", "h", "i", "j", "k", "l", "m",
              "n", "o", "p", "q", "r", "s", "t", "u", "v", "w", "x", "y", "z",
              "0", "1", "2", "3", "4", "5", "6", "7", "8", "9", "_"}

Digits == {"0", "1", "2", "3", "4", "5", "6", "7", "8", "9"}

Min(x, y) == IF x <= y THEN x ELSE y
Max(x, y) == IF x >= y THEN x ELSE y

\* ------------------------------------------------------------------------
\* Text helpers (String.indexOf, lastIndexOf, substring), 0-based as in the
\* source, over 1-based TLA+ sequences.
\* ------------------------------------------------------------------------
indexOf(s, c) ==
    IF \E i \in 1..Len(s) : s[i] = c
    THEN (CHOOSE i \in 1..Len(s) :
              s[i] = c /\ \A j \in 1..(i - 1) : s[j] # c) - 1
    ELSE -1

lastIndexOf(s, c) ==
    IF \E i \in 1..Len(s) : s[i] = c
    THEN (CHOOSE i \in 1..Len(s) :
              s[i] = c /\ \A j \in (i + 1)..Len(s) : s[j] # c) - 1
    ELSE -1

\* s.substring(from, to): characters from..to-1 (0-based), clamped.
substring(s, from, to) ==
    SubSeq(s, Max(from, 0) + 1, Min(to, Len(s)))

RECURSIVE Flatten(_)
Flatten(ss) == IF ss = <<>> THEN <<>> ELSE Head(ss) \o Flatten(Tail(ss))

\* ------------------------------------------------------------------------
\* Parsed values
\* ------------------------------------------------------------------------
StrVal(cs) == [t |-> "str", s |-> cs, k |-> <<>>, a |-> <<>>]
NumVal(cs) == [t |-> "num", s |-> cs, k |-> <<>>, a |-> <<>>]
LitVal(name) == [t |-> name, s |-> <<>>, k |-> <<>>, a |-> <<>>]
ArrVal(vs) == [t |-> "arr", s |-> <<>>, k |-> <<>>, a |-> vs]
ObjVal(ks, vs) == [t |-> "obj", s |-> <<>>, k |-> ks, a |-> vs]

NoVal == [t |-> "none", s |-> <<>>, k |-> <<>>, a |-> <<>>]

\* ------------------------------------------------------------------------
\* JSON.parse: a recursive-descent parser of the JSON grammar.  A result is
\* [ok, val, pos, err]: pos is the 1-based index after the parsed value,
\* err the SyntaxError message (the kind of message and the 0-based
\* position it reports).  Fractions, exponents, the backspace escape and
\* unicode escapes are left out: no text of the model contains them.
\* ------------------------------------------------------------------------
NoErr == [msg |-> "none", at |-> 0]

POk(v, p) == [ok |-> TRUE, val |-> v, pos |-> p, err |-> NoErr]

\* SyntaxError at 1-based index p of s.
PFail(s, p) ==
    [ok |-> FALSE, val |-> NoVal, pos |-> p,
     err |-> IF p > Len(s)
             THEN [msg |-> "Unexpected end of JSON input", at |-> Len(s)]
             ELSE [msg |-> "Unexpected token", at |-> p - 1]]

RECURSIVE SkipWs(_, _)
SkipWs(s, p) ==
    IF p <= Len(s) /\ s[p] \in JsonWs THEN SkipWs(s, p + 1) ELSE p

\* The character a backslash escape stands for.
Unescape(c) ==
    CASE c = "n" -> LF
      [] c = "r" -> CR
      [] c = "t" -> TAB
      [] c = "f" -> FF
      [] OTHER -> c

EscapeLetters == {QUOTE, BSLASH, "/", "n", "r", "t", "f"}

\* The characters of a string literal; p is the index after the opening
\* quote.
RECURSIVE ParseChars(_, _, _)
ParseChars(s, p, acc) ==
    IF p > Len(s) THEN PFail(s, p)
    ELSE IF s[p] = QUOTE THEN POk(StrVal(acc), p + 1)
    ELSE IF s[p] = BSLASH THEN
        IF p + 1 > Len(s) THEN PFail(s, p + 1)
        ELSE IF s[p + 1] \in EscapeLetters
             THEN ParseChars(s, p + 2, Append(acc, Unescape(s[p + 1])))
             ELSE PFail(s, p + 1)
    ELSE IF s[p] \in ControlChars THEN PFail(s, p)
    ELSE ParseChars(s, p + 1, Append(acc, s[p]))

RECURSIVE DigitsEnd(_, _)
DigitsEnd(s, p) ==
    IF p <= Len(s) /\ s[p] \in Digits THEN DigitsEnd(s, p + 1) ELSE p

\* -?(0|[1-9][0-9]*)
ParseNumber(s, p) ==
    LET d == IF s[p] = "-" THEN p + 1 ELSE p
    IN  IF d > Len(s) \/ s[d] \notin Digits THEN PFail(s, d)
        ELSE LET e == IF s[d] = "0" THEN d + 1 ELSE DigitsEnd(s, d)
             IN  POk(NumVal(SubSeq(s, p, e - 1)), e)

RECURSIVE MatchWord(_, _, _, _)
MatchWord(s, p, w, i) ==
    IF i > Len(w) THEN POk(LitVal(w), p)
    ELSE IF p > Len(s) \/ s[p] # w[i] THEN PFail(s, p)
    ELSE MatchWord(s, p + 1, w, i + 1)

ParseLiteral(s, p) ==
    CASE s[p] = "t" -> LET r == MatchWord(s, p, <<"t", "r", "u", "e">>, 1)
                       IN  IF r.ok THEN POk(LitVal("true"), r.pos) ELSE r
      [] s[p] = "f" -> LET r == MatchWord(s, p, <<"f", "a", "l", "s", "e">>, 1)
                       IN  IF r.ok THEN POk(LitVal("false"), r.pos) ELSE r
      [] s[p] = "n" -> LET r == MatchWord(s, p, <<"n", "u", "l", "l">>, 1)
                       IN  IF r.ok THEN POk(LitVal("null"), r.pos) ELSE r
      [] OTHER -> PFail(s, p)

\* Index of key in ks, or 0.
RECURSIVE KeyIndex(_, _, _)
KeyIndex(ks, key, i) ==
    IF i > Len(ks) THEN 0
    ELSE IF ks[i] = key THEN i
    ELSE KeyIndex(ks, key, i + 1)

RECURSIVE ParseValue(_, _)
RECURSIVE ParseElements(_, _, _)
RECURSIVE ParseMembers(_, _, _, _)

\* Elements of an array; p is the index of the first character of the next
\* element.
ParseElements(s, p, acc) ==
    LET v == ParseValue(s, p)
    IN  IF ~v.ok THEN v
        ELSE LET q == SkipWs(s, v.pos)
             IN  IF q > Len(s) THEN PFail(s, q)
                 ELSE IF s[q] = "," THEN
                     ParseElements(s, SkipWs(s, q + 1), Append(acc, v.val))
                 ELSE IF s[q] = "]" THEN
                     POk(ArrVal(Append(acc, v.val)), q + 1)
                 ELSE PFail(s, q)

\* Members of an object; p is the index where the next key must start.  A
\* repeated key keeps its first place and takes the last value.
ParseMembers(s, p, ks, vs) ==
    IF p > Len(s) \/ s[p] # QUOTE THEN PFail(s, p)
    ELSE
      LET key == ParseChars(s, p + 1, <<>>)
      IN  IF ~key.ok THEN key
          ELSE
            LET c == SkipWs(s, key.pos)
            IN  IF c > Len(s) \/ s[c] # ":" THEN PFail(s, c)
                ELSE
                  LET v == ParseValue(s, SkipWs(s, c + 1))
                  IN  IF ~v.ok THEN v
                      ELSE
                        LET q == SkipWs(s, v.pos)
                            at == KeyIndex(ks, key.val.s, 1)
                            ks2 == IF at = 0 THEN Append(ks, key.val.s) ELSE ks
                            vs2 == IF at = 0 THEN Append(vs, v.val)
                                   ELSE [vs EXCEPT ![at] = v.val]
                        IN  IF q > Len(s) THEN PFail(s, q)
                            ELSE IF s[q] = "," THEN
                                ParseMembers(s, SkipWs(s, q + 1), ks2, vs2)
                            ELSE IF s[q] = "}" THEN
                                POk(ObjVal(ks2, vs2), q + 1)
                            ELSE PFail(s, q)

\* One JSON value starting at index p (no leading whitespace).
ParseValue(s, p) ==
    IF p > Len(s) THEN PFail(s, p)
    ELSE IF s[p] = QUOTE THEN ParseChars(s, p + 1, <<>>)
    ELSE IF s[p] = "[" THEN
        LET q == SkipWs(s, p + 1)
        IN  IF q <= Len(s) /\ s[q] = "]" THEN POk(ArrVal(<<>>), q + 1)
            ELSE ParseElements(s, q, <<>>)
    ELSE IF s[p] = "{" THEN
        LET q == SkipWs(s, p + 1)
        IN  IF q <= Len(s) /\ s[q] = "}" THEN POk(ObjVal(<<>>, <<>>), q + 1)
            ELSE ParseMembers(s, q, <<>>, <<>>)
    ELSE IF s[p] = "-" \/ s[p] \in Digits THEN ParseNumber(s, p)
    ELSE ParseLiteral(s, p)

\* JSON.parse(text): one value surrounded by optional whitespace.
JSONParse(s) ==
    LET v == ParseValue(s, SkipWs(s, 1))
    IN  IF ~v.ok THEN v
        ELSE LET q == SkipWs(s, v.pos)
             IN  IF q > Len(s) THEN v ELSE PFail(s, q)

\* ------------------------------------------------------------------------
\* normalizeCodeBlocks
\* ------------------------------------------------------------------------
IsFenceAt(s, i) ==
    i + 2 <= Len(s) /\ s[i] = BTICK /\ s[i + 1] = BTICK /\ s[i + 2] = BTICK

\* End of the greedy run of word characters starting at i: the first index
\* at or after i that holds no word character.
RECURSIVE WordEnd(_, _)
WordEnd(s, i) ==
    IF i <= Len(s) /\ s[i] \in WordChars THEN WordEnd(s, i + 1) ELSE i

\* First index at or after i where a fence starts, or 0: the lazy
\* [\s\S]*? followed by the closing fence.
RECURSIVE FindFence(_, _)
FindFence(s, i) ==
    IF i + 2 > Len(s) THEN 0
    ELSE IF IsFenceAt(s, i) THEN i
    ELSE FindFence(s, i + 1)

\* Index of the last character of a match of the code-block pattern
\* starting at i, or 0 when the pattern does not match there.
FenceMatchEnd(s, i) ==
    IF ~IsFenceAt(s, i) THEN 0
    ELSE LET w == WordEnd(s, i + 3)
         IN  IF w > Len(s) \/ s[w] # LF THEN 0
             ELSE LET c == FindFence(s, w + 1)
                  IN  IF c = 0 THEN 0 ELSE c + 2

\* text.replace of every code block by the block between two blank lines.
RECURSIVE WrapFences(_, _)
WrapFences(s, i) ==
    IF i > Len(s) THEN <<>>
    ELSE LET m == FenceMatchEnd(s, i)
         IN  IF m = 0 THEN <<s[i]>> \o WrapFences(s, i + 1)
             ELSE <<LF, LF>> \o SubSeq(s, i, m) \o <<LF, LF>>
                  \o WrapFences(s, m + 1)

\* End of the run of line feeds starting at i.
RECURSIVE NewlineRunEnd(_, _)
NewlineRunEnd(s, i) ==
    IF i <= Len(s) /\ s[i] = LF THEN NewlineRunEnd(s, i + 1) ELSE i

\* Replace every run of three or more line feeds by two.
RECURSIVE CollapseNewlines(_, _)
CollapseNewlines(s, i) ==
    IF i > Len(s) THEN <<>>
    ELSE LET e == NewlineRunEnd(s, i)
         IN  IF e - i >= 3 THEN <<LF, LF>> \o CollapseNewlines(s, e)
             ELSE <<s[i]>> \o CollapseNewlines(s, i + 1)

RECURSIVE TrimStart(_)
TrimStart(s) ==
    IF s # <<>> /\ Head(s) \in RegexWs THEN TrimStart(Tail(s)) ELSE s

RECURSIVE TrimEnd(_)
TrimEnd(s) ==
    IF s # <<>> /\ s[Len(s)] \in RegexWs
    THEN TrimEnd(SubSeq(s, 1, Len(s) - 1)) ELSE s

trim(s) == TrimEnd(TrimStart(s))

\* normalizeCodeBlocks collapsing the runs of line feeds before it wraps the
\* blocks.
normalizeCodeBlocks_CollapseFirst(text) ==
    trim(WrapFences(CollapseNewlines(text, 1), 1))

\* normalizeCodeBlocks without the collapse of line 15.
normalizeCodeBlocks_NoCollapse(text) ==
    trim(WrapFences(text, 1))

normalizeCodeBlocks(text) ==
    trim(CollapseNewlines(WrapFences(text, 1), 1))

\* The property name that Object.prototype answers with an accessor.
ProtoKey == <<"_", "_", "p", "r", "o", "t", "o", "_", "_">>

\* result[key] = value, on the fresh object literal result.  The keys come
\* from Object.entries and are distinct.  An assignment to __proto__ runs
\* the accessor inherited from Object.prototype, which sets the prototype
\* or does nothing, and makes no own property.
SetProperty(result, key, value) ==
    IF key = ProtoKey THEN result
    ELSE ObjVal(Append(result.k, key), Append(result.a, value))

RECURSIVE normalizeCodeBlocksInObject(_)
RECURSIVE AssignEntries(_, _, _)

\* The loop over Object.entries(obj), from entry i on.
AssignEntries(obj, i, result) ==
    IF i > Len(obj.k) THEN result
    ELSE AssignEntries(obj, i + 1,
             SetProperty(result, obj.k[i],
                         normalizeCodeBlocksInObject(obj.a[i])))

normalizeCodeBlocksInObject(obj) ==
    IF obj.t = "str" THEN StrVal(normalizeCodeBlocks(obj.s))
    ELSE IF obj.t = "arr" THEN
        ArrVal([i \in 1..Len(obj.a) |-> normalizeCodeBlocksInObject(obj.a[i])])
    ELSE IF obj.t = "obj" THEN
        AssignEntries(obj, 1, ObjVal(<<>>, <<>>))
    ELSE obj

\* ------------------------------------------------------------------------
\* The repair passes
\* ------------------------------------------------------------------------

\* Step 1 with the closing bracket left out of the span: substring(start, end).
ExtractBoundaries_ExclusiveEnd(text) ==
    LET arrayStart == indexOf(text, "[")
        objectStart == indexOf(text, "{")
        start == IF arrayStart # -1 /\ objectStart # -1
                 THEN Min(arrayStart, objectStart)
                 ELSE Max(arrayStart, objectStart)
        end == Max(lastIndexOf(text, "]"), lastIndexOf(text, "}"))
    IN  IF start # -1 /\ end # -1 /\ end > start
        THEN substring(text, start, end)
        ELSE text

\* Step 1 starting at the later of the first [ and the first {.
ExtractBoundaries_LaterStart(text) ==
    LET start == Max(indexOf(text, "["), indexOf(text, "{"))
        end == Max(lastIndexOf(text, "]"), lastIndexOf(text, "}"))
    IN  IF start # -1 /\ end # -1 /\ end > start
        THEN substring(text, start, end + 1)
        ELSE text

\* Step 1 without the tests that both boundaries were found.
ExtractBoundaries_Unguarded(text) ==
    LET arrayStart == indexOf(text, "[")
        objectStart == indexOf(text, "{")
        start == IF arrayStart # -1 /\ objectStart # -1
                 THEN Min(arrayStart, objectStart)
                 ELSE Max(arrayStart, objectStart)
        end == Max(lastIndexOf(text, "]"), lastIndexOf(text, "}"))
    IN  IF end >= start
        THEN substring(text, start, end + 1)
        ELSE text

\* Step 1 ending at the smaller of the two last closers.
ExtractBoundaries_SmallerEnd(text) ==
    LET arrayStart == indexOf(text, "[")
        objectStart == indexOf(text, "{")
        start == IF arrayStart # -1 /\ objectStart # -1
                 THEN Min(arrayStart, objectStart)
                 ELSE Max(arrayStart, objectStart)
        arrayEnd == lastIndexOf(text, "]")
        objectEnd == lastIndexOf(text, "}")
        end == IF arrayEnd # -1 /\ objectEnd # -1
               THEN Min(arrayEnd, objectEnd)
               ELSE Max(arrayEnd, objectEnd)
    IN  IF start # -1 /\ end # -1 /\ end > start
        THEN substring(text, start, end + 1)
        ELSE text

\* Step 1: the span from the first [ or { to the last ] or }.
ExtractBoundaries(text) ==
    LET arrayStart == indexOf(text, "[")
        objectStart == indexOf(text, "{")
        start == IF arrayStart # -1 /\ objectStart # -1
                 THEN Min(arrayStart, objectStart)
                 ELSE Max(arrayStart, objectStart)
        arrayEnd == lastIndexOf(text, "]")
        objectEnd == lastIndexOf(text, "}")
        end == Max(arrayEnd, objectEnd)
    IN  IF start # -1 /\ end # -1 /\ end > start
        THEN substring(text, start, end + 1)
        ELSE text

\* End of the greedy run of \s starting at i.
RECURSIVE SpaceRunEnd(_, _)
SpaceRunEnd(s, i) ==
    IF i <= Len(s) /\ s[i] \in RegexWs THEN SpaceRunEnd(s, i + 1) ELSE i

\* The pattern without its \s*: a comma directly before a closer.
CommaMatchesAt_NoSpace(s, i) ==
    /\ s[i] = ","
    /\ i + 1 <= Len(s)
    /\ s[i + 1] \in {"}", "]"}

\* Step 3: cleaned.replace(/,(\s*[}\]])/g, "$1").  A match is a comma, the
\* greedy run of \s after it and a closer; matches cannot overlap, so the
\* replacement drops exactly the commas at which the pattern matches.
CommaMatchesAt(s, i) ==
    /\ s[i] = ","
    /\ LET e == SpaceRunEnd(s, i + 1)
       IN  e <= Len(s) /\ s[e] \in {"}", "]"}

\* The replacement applied to the characters lo..hi, as the concatenation
\* of the two halves of the range.
RECURSIVE RemoveTrailingCommas(_, _, _)
RemoveTrailingCommas(s, lo, hi) ==
    IF lo > hi THEN <<>>
    ELSE IF lo = hi THEN (IF CommaMatchesAt(s, lo) THEN <<>> ELSE <<s[lo]>>)
    ELSE LET mid == (lo + hi) \div 2
         IN  RemoveTrailingCommas(s, lo, mid)
             \o RemoveTrailingCommas(s, mid + 1, hi)

fixTrailingCommas(s) == RemoveTrailingCommas(s, 1, Len(s))

\* The replacement that keeps the other control characters.
ControlEscape_KeepOthers(c) ==
    CASE c = LF -> <<BSLASH, "n">>
      [] c = CR -> <<BSLASH, "r">>
      [] c = TAB -> <<BSLASH, "t">>
      [] OTHER -> <<c>>

\* What the control-character pass writes for the character c met at a
\* position it takes to be inside a string.
ControlEscape(c) ==
    CASE c = LF -> <<BSLASH, "n">>
      [] c = CR -> <<BSLASH, "r">>
      [] c = TAB -> <<BSLASH, "t">>
      [] c \in ControlChars -> <<>>
      [] OTHER -> <<c>>

\* That iteration with a backslash outside a string copied as an ordinary
\* character.
ControlStep_OutsideOrdinary(st, char) ==
    IF st.escaped THEN
        [inString |-> st.inString, escaped |-> FALSE, out |-> <<char>>]
    ELSE IF char = BSLASH THEN
        [inString |-> st.inString, escaped |-> st.inString, out |-> <<char>>]
    ELSE IF char = QUOTE THEN
        [inString |-> ~st.inString, escaped |-> FALSE, out |-> <<char>>]
    ELSE IF st.inString THEN
        [inString |-> TRUE, escaped |-> FALSE, out |-> ControlEscape(char)]
    ELSE
        [inString |-> FALSE, escaped |-> FALSE, out |-> <<char>>]

\* One iteration of the loop of fixControlCharactersInStrings on the
\* character char in scan state st = [inString, escaped]: the next scan
\* state and the characters appended to result.
ControlStep(st, char) ==
    IF st.escaped THEN
        [inString |-> st.inString, escaped |-> FALSE, out |-> <<char>>]
    ELSE IF char = BSLASH THEN
        [inString |-> st.inString, escaped |-> TRUE, out |-> <<char>>]
    ELSE IF char = QUOTE THEN
        [inString |-> ~st.inString, escaped |-> FALSE, out |-> <<char>>]
    ELSE IF st.inString THEN
        [inString |-> TRUE, escaped |-> FALSE, out |-> ControlEscape(char)]
    ELSE
        [inString |-> FALSE, escaped |-> FALSE, out |-> <<char>>]

\* The iterations lo..hi of that loop, entered in scan state st: the scan
\* state after them and what they append.  The range is run as its first
\* half followed by its second half, the second entered in the state the
\* first has left (bound as a value, so that evaluation depth stays
\* logarithmic in the length of the text).
RECURSIVE ControlScan(_, _, _, _)
ControlScan(json, lo, hi, st) ==
    IF lo > hi THEN
        [inString |-> st.inString, escaped |-> st.escaped, out |-> <<>>]
    ELSE IF lo = hi THEN ControlStep(st, json[lo])
    ELSE LET mid == (lo + hi) \div 2
         IN  CHOOSE r \in
               {[inString |-> right.inString, escaped |-> right.escaped,
                 out |-> left.out \o right.out] :
                    <<left, right>> \in
                      {<<l, ControlScan(json, mid + 1, hi, l)>> :
                          l \in {ControlScan(json, lo, mid, st)}}} : TRUE

ScanStart == [inString |-> FALSE, escaped |-> FALSE]

fixControlCharactersInStrings(json) ==
    ControlScan(json, 1, Len(json), ScanStart).out

\* The next character at or after the 0-based startIndex that is not a
\* space, line feed, carriage return or tab; "" at the end of the text.
RECURSIVE getNextNonSpaceChar(_, _)
getNextNonSpaceChar(str, startIndex) ==
    IF startIndex + 1 > Len(str) THEN ""
    ELSE IF str[startIndex + 1] \notin {SPACE, LF, CR, TAB}
         THEN str[startIndex + 1]
         ELSE getNextNonSpaceChar(str, startIndex + 1)

\* The terminators without the colon that follows a key.
StringTerminators_NoColon == {",", "}", "]", ""}

\* What may follow the quote that ends a string (lines 203-208).
StringTerminators == {",", "}", "]", "", ":"}

\* That iteration taking a quote after a backslash for a quote like any
\* other.
QuoteStep_EscapedQuoteSeen(json, i, st) ==
    LET char == json[i]
    IN  IF st.escaped /\ char # QUOTE THEN
            [inString |-> st.inString, escaped |-> FALSE, out |-> <<char>>]
        ELSE IF char = BSLASH THEN
            [inString |-> st.inString, escaped |-> TRUE, out |-> <<char>>]
        ELSE IF char = QUOTE THEN
            IF ~st.inString THEN
                [inString |-> TRUE, escaped |-> FALSE, out |-> <<char>>]
            ELSE IF getNextNonSpaceChar(json, i) \in StringTerminators THEN
                [inString |-> FALSE, escaped |-> FALSE, out |-> <<char>>]
            ELSE
                [inString |-> TRUE, escaped |-> FALSE,
                 out |-> <<BSLASH, QUOTE>>]
        ELSE
            [inString |-> st.inString, escaped |-> FALSE, out |-> <<char>>]

\* That iteration leaving out a quote met inside a string instead of
\* escaping it.
QuoteStep_DropInner(json, i, st) ==
    LET char == json[i]
    IN  IF st.escaped THEN
            [inString |-> st.inString, escaped |-> FALSE, out |-> <<char>>]
        ELSE IF char = BSLASH THEN
            [inString |-> st.inString, escaped |-> TRUE, out |-> <<char>>]
        ELSE IF char = QUOTE THEN
            IF ~st.inString THEN
                [inString |-> TRUE, escaped |-> FALSE, out |-> <<char>>]
            ELSE IF getNextNonSpaceChar(json, i) \in StringTerminators THEN
                [inString |-> FALSE, escaped |-> FALSE, out |-> <<char>>]
            ELSE
                [inString |-> TRUE, escaped |-> FALSE, out |-> <<>>]
        ELSE
            [inString |-> st.inString, escaped |-> FALSE, out |-> <<char>>]

\* That iteration ending the string at every quote met inside it.
QuoteStep_Toggle(json, i, st) ==
    LET char == json[i]
    IN  IF st.escaped THEN
            [inString |-> st.inString, escaped |-> FALSE, out |-> <<char>>]
        ELSE IF char = BSLASH THEN
            [inString |-> st.inString, escaped |-> TRUE, out |-> <<char>>]
        ELSE IF char = QUOTE THEN
            [inString |-> ~st.inString, escaped |-> FALSE, out |-> <<char>>]
        ELSE
            [inString |-> st.inString, escaped |-> FALSE, out |-> <<char>>]

\* That iteration without lines 180-190: no track kept of backslashes.
QuoteStep_NoEscapeTracking(json, i, st) ==
    LET char == json[i]
    IN  IF char = QUOTE THEN
            IF ~st.inString THEN
                [inString |-> TRUE, escaped |-> FALSE, out |-> <<char>>]
            ELSE IF getNextNonSpaceChar(json, i) \in StringTerminators THEN
                [inString |-> FALSE, escaped |-> FALSE, out |-> <<char>>]
            ELSE
                [inString |-> TRUE, escaped |-> FALSE,
                 out |-> <<BSLASH, QUOTE>>]
        ELSE
            [inString |-> st.inString, escaped |-> FALSE, out |-> <<char>>]

\* One iteration of the loop of fixUnescapedQuotesInValues at the 1-based
\* index i of json in scan state st.
QuoteStep(json, i, st) ==
    LET char == json[i]
    IN  IF st.escaped THEN
            [inString |-> st.inString, escaped |-> FALSE, out |-> <<char>>]
        ELSE IF char = BSLASH THEN
            [inString |-> st.inString, escaped |-> TRUE, out |-> <<char>>]
        ELSE IF char = QUOTE THEN
            IF ~st.inString THEN
                [inString |-> TRUE, escaped |-> FALSE, out |-> <<char>>]
            ELSE IF getNextNonSpaceChar(json, i) \in StringTerminators THEN
                [inString |-> FALSE, escaped |-> FALSE, out |-> <<char>>]
            ELSE
                [inString |-> TRUE, escaped |-> FALSE,
                 out |-> <<BSLASH, QUOTE>>]
        ELSE
            [inString |-> st.inString, escaped |-> FALSE, out |-> <<char>>]

\* The iterations lo..hi of that loop, entered in scan state st.
RECURSIVE QuoteScan(_, _, _, _)
QuoteScan(json, lo, hi, st) ==
    IF lo > hi THEN
        [inString |-> st.inString, escaped |-> st.escaped, out |-> <<>>]
    ELSE IF lo = hi THEN QuoteStep(json, lo, st)
    ELSE LET mid == (lo + hi) \div 2
         IN  CHOOSE r \in
               {[inString |-> right.inString, escaped |-> right.escaped,
                 out |-> left.out \o right.out] :
                    <<left, right>> \in
                      {<<l, QuoteScan(json, mid + 1, hi, l)>> :
                          l \in {QuoteScan(json, lo, mid, st)}}} : TRUE

fixUnescapedQuotesInValues(json) ==
    QuoteScan(json, 1, Len(json), ScanStart).out

\* ------------------------------------------------------------------------
\* cleanAndParseJSON as a function of its input: the outcome of the call
\* (ok, the returned value or the thrown error), the working text at the
\* end and the number of the parse attempt that ended the call.
\* ------------------------------------------------------------------------
ErrorPrefix == "Failed to parse AI response as JSON: "

\* new Error(`Failed to parse AI response as JSON: ${finalError.message}`)
ExtractionError(err) ==
    [name |-> "Error", message |-> [prefix |-> ErrorPrefix, detail |-> err]]

NoError == [name |-> "none", message |-> [prefix |-> "", detail |-> NoErr]]

cleanAndParseJSON(text) ==
    LET c1 == ExtractBoundaries(text)
        p1 == JSONParse(c1)
        c2 == fixControlCharactersInStrings(fixTrailingCommas(c1))
        p2 == JSONParse(c2)
        c3 == fixUnescapedQuotesInValues(c2)
        p3 == JSONParse(c3)
    IN  IF p1.ok THEN
            [ok |-> TRUE, val |-> normalizeCodeBlocksInObject(p1.val),
             error |-> NoError, text |-> c1, attempt |-> 1]
        ELSE IF p2.ok THEN
            [ok |-> TRUE, val |-> normalizeCodeBlocksInObject(p2.val),
             error |-> NoError, text |-> c2, attempt |-> 2]
        ELSE IF p3.ok THEN
            [ok |-> TRUE, val |-> normalizeCodeBlocksInObject(p3.val),
             error |-> NoError, text |-> c3, attempt |-> 3]
        ELSE
            [ok |-> FALSE, val |-> NoVal,
             error |-> ExtractionError(p3.err), text |-> c3, attempt |-> 3]

\* ------------------------------------------------------------------------
\* Bounds and input texts
\* ------------------------------------------------------------------------
MaxAnyLen == 4
MaxBody == 3
MaxWrap == 2
LongSpan == 3
MaxNormAtoms == 5
MaxPasses == 2
MaxMembers == 2
MaxScanLen == 4

\* The number of calls in flight at once.
NumCallers == 2

Callers == 1..NumCallers

\* The locals of a call that has not been entered.
IdleCall ==
    [rawText |-> <<>>, cleaned |-> <<>>, pc |-> "idle", result |-> NoVal,
     thrown |-> NoError]

NoCalls == [c \in Callers |-> IdleCall]

\* The state of a request handler before a request has come in.
NoRequest ==
    [kind |-> "none", body |-> <<>>, pc |-> "none", responses |-> <<>>,
     fetchCalls |-> 0, parseCalls |-> 0, upstream |-> "none",
     read |-> "none", content |-> <<>>]

\* cleaned.substring(0, 500)
PreviewLen == 500

\* All sequences over the set S of length at most n.
SeqsUpTo(S, n) == UNION {[1..m -> S] : m \in 0..n}

\* Family "any": every text over these characters.
AnyChars == {"[", "]", "{", "}", QUOTE, ",", "1", LF}

\* The gap between two JSON tokens.
Gaps == {<<>>, <<SPACE>>, <<LF>>}

Templates == {"array", "object", "pair"}

\* A JSON document holding the one string literal with the characters
\* body, the tokens around it separated by gap.
Document(template, gap, body) ==
    LET str == <<QUOTE>> \o body \o <<QUOTE>>
    IN  CASE template = "array" ->
               <<"[">> \o gap \o str \o gap \o <<"]">>
          [] template = "object" ->
               <<"{", QUOTE, "k", QUOTE, ":">> \o gap \o str \o gap \o <<"}">>
          [] template = "pair" ->
               <<"[">> \o str \o <<",">> \o gap \o <<"1">> \o gap \o <<"]">>

\* Family "quote": string bodies over these atoms; the atom "Q" is a double
\* quote inside the string, escaped in the reference text and bare in the
\* raw text.
QuoteAtoms == {"a", "Q", ",", "]"}
QuoteRaw(atom) == IF atom = "Q" THEN <<QUOTE>> ELSE <<atom>>
QuoteRef(atom) == IF atom = "Q" THEN <<BSLASH, QUOTE>> ELSE <<atom>>

\* Family "control": the atoms LF, CR and TAB are raw in the raw text and
\* written as the escapes \n, \r and \t in the reference text.
ControlAtoms == {"a", LF, CR, TAB, ",", "]"}
ControlRaw(atom) == <<atom>>
ControlRef(atom) ==
    CASE atom = LF -> <<BSLASH, "n">>
      [] atom = CR -> <<BSLASH, "r">>
      [] atom = TAB -> <<BSLASH, "t">>
      [] OTHER -> <<atom>>

\* Family "comma": valid documents, with a comma and a gap inserted before
\* the closing bracket in the raw text.
CommaAtoms == {"a", ",", "]", SPACE}
WithTrailingComma(doc, gap) ==
    SubSeq(doc, 1, Len(doc) - 1) \o <<",">> \o gap \o <<doc[Len(doc)]>>

\* Family "wrap": a valid document between a leading and a trailing text.
WrapAtoms == {"a", LF, "[", "}"}
WrapBases == {<<"[", "1", "]">>,
              <<"{", QUOTE, "k", QUOTE, ":", "1", "}">>,
              <<"[", "{", "}", "]">>}
FenceOpen == <<BTICK, BTICK, BTICK, "j", "s", "o", "n", LF>>
FenceClose == <<LF, BTICK, BTICK, BTICK>>

\* Family "long": texts that no repair makes parseable and whose repaired
\* form is about PreviewLen characters long.  Each scanning pass lengthens
\* the text by one character, and each of the three parse attempts fails at
\* another position.
LongText(n) == <<"[", QUOTE, LF, QUOTE, QUOTE, ":">> \o [i \in 1..n |-> "a"]
LongTexts == {LongText(PreviewLen - 9 + d) : d \in 0..LongSpan}

\* The characters of the texts handed to a single repair pass.
ScanChars == {QUOTE, BSLASH, ",", "]", "[", LF, FF, "a"}

\* Family "members": valid objects and arrays of a few members.
MemberKeys == {<<"k">>, <<"a">>, ProtoKey}
MemberValues ==
    {<<"1">>,
     <<"n", "u", "l", "l">>,
     <<"t", "r", "u", "e">>,
     <<QUOTE, SPACE, "a", QUOTE>>,
     <<"[", QUOTE, "a", SPACE, QUOTE, ",", "1", "]">>,
     <<"{", QUOTE, "k", QUOTE, ":", QUOTE, SPACE, "a", QUOTE, "}">>}

\* The members ms, each a pair of a key and the text of a value, written
\* as the members of an object or the elements of an array.
RECURSIVE JoinMembers(_, _)
JoinMembers(kind, ms) ==
    IF ms = <<>> THEN <<>>
    ELSE (IF kind = "obj"
          THEN <<QUOTE>> \o Head(ms)[1] \o <<QUOTE, ":">>
          ELSE <<>>)
         \o Head(ms)[2]
         \o (IF Len(ms) > 1 THEN <<",">> ELSE <<>>)
         \o JoinMembers(kind, Tail(ms))

MemberDocument(kind, ms) ==
    IF kind = "obj" THEN <<"{">> \o JoinMembers(kind, ms) \o <<"}">>
    ELSE <<"[">> \o JoinMembers(kind, ms) \o <<"]">>

\* Family "norm": strings made of fences, letters and white space.
NormAtoms == {<<BTICK, BTICK, BTICK>>, <<"a">>, <<LF>>, <<SPACE>>}

\* ------------------------------------------------------------------------
\* State
\* ------------------------------------------------------------------------
VARIABLES
    family,     \* which family of inputs rawText was drawn from
    rawText,    \* the argument of the call
    ref,        \* the reference text the family relates rawText to
    refAt,      \* index of rawText at which ref stands, 0 if it does not
    cleaned,    \* the local variable cleaned
    pc,         \* position of the call in cleanAndParseJSON
    result,     \* the returned value
    thrown,     \* the Error thrown to the caller
    log,        \* what the call has written to the logger
    trace,      \* the stages run so far
    normCalls,  \* number of calls of normalizeCodeBlocksInObject
    nText,      \* a string handed to normalizeCodeBlocks
    nOut,       \* the results of the successive normalisations of nText
    scanText,   \* a text handed to one of the repair passes
    scanPass,   \* the repair pass applied to scanText, "none" before
    scanOut,    \* what that pass has returned
    calls,      \* the local state of each of the concurrently active calls
    handler     \* the state of a request handler of the controller

vars == <<family, rawText, ref, refAt, cleaned, pc, result, thrown, log, trace,
          normCalls, nText, nOut, scanText, scanPass, scanOut, calls, handler>>

callVars == <<family, rawText, ref, refAt, cleaned, pc, result, thrown, log, trace,
              normCalls>>

normVars == <<nText, nOut>>

scanVars == <<scanText, scanPass, scanOut>>

concVars == <<calls>>

reqVars == <<handler>>

Init ==
    /\ family = "none"
    /\ rawText = <<>>
    /\ ref = <<>>
    /\ refAt = 0
    /\ cleaned = <<>>
    /\ pc = "idle"
    /\ result = NoVal
    /\ thrown = NoError
    /\ log = <<>>
    /\ trace = <<>>
    /\ normCalls = 0
    /\ nText = <<>>
    /\ nOut = <<>>
    /\ scanText = <<>>
    /\ scanPass = "none"
    /\ scanOut = <<>>
    /\ calls = NoCalls
    /\ handler = NoRequest

\* A caller enters cleanAndParseJSON(raw): let cleaned = rawText.
Enter(f, raw, reference, at) ==
    /\ pc = "idle"
    /\ family' = f
    /\ rawText' = raw
    /\ ref' = reference
    /\ refAt' = at
    /\ cleaned' = raw
    /\ pc' = "extract"
    /\ UNCHANGED <<result, thrown, log, trace, normCalls, normVars, scanVars, concVars, reqVars>>

CallAny ==
    \E t \in SeqsUpTo(AnyChars, MaxAnyLen) : Enter("any", t, t, 1)

CallQuote ==
    \E tpl \in Templates, gap \in Gaps, body \in SeqsUpTo(QuoteAtoms, MaxBody) :
        Enter("quote",
              Document(tpl, gap,
                       Flatten([i \in 1..Len(body) |-> QuoteRaw(body[i])])),
              Document(tpl, gap,
                       Flatten([i \in 1..Len(body) |-> QuoteRef(body[i])])),
              0)

CallControl ==
    \E tpl \in Templates, gap \in Gaps,
       body \in SeqsUpTo(ControlAtoms, MaxBody) :
        Enter("control",
              Document(tpl, gap,
                       Flatten([i \in 1..Len(body) |-> ControlRaw(body[i])])),
              Document(tpl, gap,
                       Flatten([i \in 1..Len(body) |-> ControlRef(body[i])])),
              0)

CallComma ==
    \E tpl \in Templates, gap \in Gaps, tail \in Gaps,
       body \in SeqsUpTo(CommaAtoms, MaxBody) :
        Enter("comma",
              WithTrailingComma(Document(tpl, gap, body), tail),
              Document(tpl, gap, body),
              0)

CallWrap ==
    \E base \in WrapBases, fenced \in BOOLEAN,
       before \in SeqsUpTo(WrapAtoms, MaxWrap),
       after \in SeqsUpTo(WrapAtoms, MaxWrap) :
        Enter("wrap",
              before \o (IF fenced THEN FenceOpen ELSE <<>>) \o base
                \o (IF fenced THEN FenceClose ELSE <<>>) \o after,
              base,
              Len(before) + (IF fenced THEN Len(FenceOpen) ELSE 0) + 1)

CallLong ==
    \E t \in LongTexts : Enter("long", t, t, 1)

CallMembers ==
    \E kind \in {"obj", "arr"},
       ms \in SeqsUpTo(MemberKeys \X MemberValues, MaxMembers) :
        Enter("members", MemberDocument(kind, ms), MemberDocument(kind, ms), 1)

\* The call of cleanAndParseJSON, on an input of one of the families.
Call ==
    /\ pc = "idle"
    /\ \/ CallAny
       \/ CallQuote
       \/ CallControl
       \/ CallComma
       \/ CallWrap
       \/ CallLong
       \/ CallMembers

\* ------------------------------------------------------------------------
\* The steps of cleanAndParseJSON
\* ------------------------------------------------------------------------
DebugEntry(text) == [level |-> "debug", text |-> text, preview |-> <<>>]

ErrorEntry(text, preview) ==
    [level |-> "error", text |-> text, preview |-> preview]

\* The try block logging a preview of the input instead of the repaired
\* text.
TryParse_RawPreview(n, next) ==
    LET parsed == JSONParse(cleaned)
    IN  /\ trace' = Append(trace, "parse")
        /\ IF parsed.ok
           THEN /\ result' = normalizeCodeBlocksInObject(parsed.val)
                /\ normCalls' = normCalls + 1
                /\ pc' = "returned"
                /\ UNCHANGED <<thrown, log>>
           ELSE IF n < 3
           THEN /\ log' = Append(log, DebugEntry(
                            IF n = 1
                            THEN "Initial JSON parse failed, attempting sanitization..."
                            ELSE "Second JSON parse failed, attempting quote fix..."))
                /\ pc' = next
                /\ UNCHANGED <<result, thrown, normCalls>>
           ELSE /\ log' = Append(log, ErrorEntry(
                            "JSON parsing failed after all sanitization attempts. Content preview: ",
                            substring(rawText, 0, PreviewLen) \o <<".", ".", ".">>))
                /\ thrown' = ExtractionError(parsed.err)
                /\ pc' = next
                /\ UNCHANGED <<result, normCalls>>
        /\ UNCHANGED <<family, rawText, ref, refAt, cleaned, normVars, scanVars, concVars, reqVars>>

\* The try block normalising the parsed value a second time.
TryParse_NormalizeTwice(n, next) ==
    LET parsed == JSONParse(cleaned)
    IN  /\ trace' = Append(trace, "parse")
        /\ IF parsed.ok
           THEN /\ result' = normalizeCodeBlocksInObject(
                                 normalizeCodeBlocksInObject(parsed.val))
                /\ normCalls' = normCalls + 2
                /\ pc' = "returned"
                /\ UNCHANGED <<thrown, log>>
           ELSE IF n < 3
           THEN /\ log' = Append(log, DebugEntry(
                            IF n = 1
                            THEN "Initial JSON parse failed, attempting sanitization..."
                            ELSE "Second JSON parse failed, attempting quote fix..."))
                /\ pc' = next
                /\ UNCHANGED <<result, thrown, normCalls>>
           ELSE /\ log' = Append(log, ErrorEntry(
                            "JSON parsing failed after all sanitization attempts. Content preview: ",
                            substring(cleaned, 0, PreviewLen) \o <<".", ".", ".">>))
                /\ thrown' = ExtractionError(parsed.err)
                /\ pc' = next
                /\ UNCHANGED <<result, normCalls>>
        /\ UNCHANGED <<family, rawText, ref, refAt, cleaned, normVars, scanVars, concVars, reqVars>>

\* A try block: JSON.parse(cleaned) and the normalisation of its value; on
\* an exception the catch block at attempt n.
TryParse(n, next) ==
    LET parsed == JSONParse(cleaned)
    IN  /\ trace' = Append(trace, "parse")
        /\ IF parsed.ok
           THEN /\ result' = normalizeCodeBlocksInObject(parsed.val)
                /\ normCalls' = normCalls + 1
                /\ pc' = "returned"
                /\ UNCHANGED <<thrown, log>>
           ELSE IF n < 3
           THEN /\ log' = Append(log, DebugEntry(
                            IF n = 1
                            THEN "Initial JSON parse failed, attempting sanitization..."
                            ELSE "Second JSON parse failed, attempting quote fix..."))
                /\ pc' = next
                /\ UNCHANGED <<result, thrown, normCalls>>
           ELSE /\ log' = Append(log, ErrorEntry(
                            "JSON parsing failed after all sanitization attempts. Content preview: ",
                            substring(cleaned, 0, PreviewLen) \o <<".", ".", ".">>))
                /\ thrown' = ExtractionError(parsed.err)
                /\ pc' = next
                /\ UNCHANGED <<result, normCalls>>
        /\ UNCHANGED <<family, rawText, ref, refAt, cleaned, normVars, scanVars, concVars, reqVars>>

\* That step writing the new text over the argument as well.
Rewrite_InPlace(stage, text, next) ==
    /\ cleaned' = text
    /\ rawText' = text
    /\ trace' = Append(trace, stage)
    /\ pc' = next
    /\ UNCHANGED <<family, ref, refAt, result, thrown, log,
                   normCalls, normVars, scanVars, concVars, reqVars>>

\* A step that rewrites cleaned.
Rewrite(stage, text, next) ==
    /\ cleaned' = text
    /\ trace' = Append(trace, stage)
    /\ pc' = next
    /\ UNCHANGED <<family, rawText, ref, refAt, result, thrown, log,
                   normCalls, normVars, scanVars, concVars, reqVars>>

\* Step 1
Extract ==
    /\ pc = "extract"
    /\ Rewrite("extract", ExtractBoundaries(cleaned), "parse1")

\* Step 2 going on to the quote repair when the parse fails.
FirstParse_SkipRepairs ==
    /\ pc = "parse1"
    /\ TryParse(1, "quotes")

\* Step 2
FirstParse ==
    /\ pc = "parse1"
    /\ TryParse(1, "commas")

\* Step 3
FixCommas ==
    /\ pc = "commas"
    /\ Rewrite("comma", fixTrailingCommas(cleaned), "control")

\* Step 4
FixControl ==
    /\ pc = "control"
    /\ Rewrite("control", fixControlCharactersInStrings(cleaned), "parse2")

\* Step 5 going back to the comma repair when the parse fails.
SecondParse_Retry ==
    /\ pc = "parse2"
    /\ TryParse(2, "commas")

\* Step 5
SecondParse ==
    /\ pc = "parse2"
    /\ TryParse(2, "quotes")

\* Step 6
FixQuotes ==
    /\ pc = "quotes"
    /\ Rewrite("quote", fixUnescapedQuotesInValues(cleaned), "parse3")

\* Step 7
FinalParse ==
    /\ pc = "parse3"
    /\ TryParse(3, "thrown")

\* The steps of a call that has been entered.
Step ==
    \/ Extract
    \/ FirstParse
    \/ FixCommas
    \/ FixControl
    \/ SecondParse
    \/ FixQuotes
    \/ FinalParse

Next == Call \/ Step

Spec == Init /\ [][Next]_vars

\* ------------------------------------------------------------------------
\* normalizeCodeBlocks applied repeatedly to one string
\* ------------------------------------------------------------------------
NormInit ==
    /\ \E atoms \in SeqsUpTo(NormAtoms, MaxNormAtoms) :
           nText = Flatten(atoms)
    /\ nOut = <<>>
    /\ family = "norm"
    /\ rawText = <<>>
    /\ ref = <<>>
    /\ refAt = 0
    /\ cleaned = <<>>
    /\ pc = "idle"
    /\ result = NoVal
    /\ thrown = NoError
    /\ log = <<>>
    /\ trace = <<>>
    /\ normCalls = 0
    /\ scanText = <<>>
    /\ scanPass = "none"
    /\ scanOut = <<>>
    /\ calls = NoCalls
    /\ handler = NoRequest

Normalize ==
    /\ Len(nOut) < MaxPasses
    /\ nOut' = Append(nOut, normalizeCodeBlocks(
                   IF nOut = <<>> THEN nText ELSE nOut[Len(nOut)]))
    /\ UNCHANGED <<nText, family, rawText, ref, refAt, cleaned, pc, result,
                   thrown, log, trace, normCalls, scanVars, concVars, reqVars>>

NormNext == Normalize

NormSpec == NormInit /\ [][NormNext]_vars

\* ------------------------------------------------------------------------
\* One repair pass applied to one text
\* ------------------------------------------------------------------------
\* The texts handed to a pass: every short text over ScanChars, and the
\* valid documents of one string over CommaAtoms.
ScanTexts ==
    SeqsUpTo(ScanChars, MaxScanLen)
    \cup {Document(tpl, gap, body) :
             tpl \in Templates, gap \in Gaps,
             body \in SeqsUpTo(CommaAtoms, MaxBody)}
    \cup {Document(tpl, gap,
                   Flatten([i \in 1..Len(body) |-> QuoteRef(body[i])])) :
             tpl \in Templates, gap \in Gaps,
             body \in SeqsUpTo(QuoteAtoms, MaxBody)}

ScanInit ==
    /\ scanText \in ScanTexts
    /\ scanPass = "none"
    /\ scanOut = <<>>
    /\ family = "scan"
    /\ rawText = <<>>
    /\ ref = <<>>
    /\ refAt = 0
    /\ cleaned = <<>>
    /\ pc = "idle"
    /\ result = NoVal
    /\ thrown = NoError
    /\ log = <<>>
    /\ trace = <<>>
    /\ normCalls = 0
    /\ nText = <<>>
    /\ nOut = <<>>
    /\ calls = NoCalls
    /\ handler = NoRequest

\* A pass returns its result for scanText.
Scanned(pass, text) ==
    /\ scanPass = "none"
    /\ scanPass' = pass
    /\ scanOut' = text
    /\ UNCHANGED <<scanText, callVars, normVars, concVars, reqVars>>

ScanCommas == Scanned("comma", fixTrailingCommas(scanText))

ScanControl == Scanned("control", fixControlCharactersInStrings(scanText))

ScanQuotes == Scanned("quote", fixUnescapedQuotesInValues(scanText))

ScanNext ==
    \/ ScanCommas
    \/ ScanControl
    \/ ScanQuotes

ScanSpec == ScanInit /\ [][ScanNext]_vars

\* ------------------------------------------------------------------------
\* Several calls in flight.  Each call has its own rawText, cleaned and
\* outcome; the logger is the one object the calls share.  The steps of
\* different calls interleave at every stage, which includes every order
\* in which the event loop runs the calls of the requests in flight.
\* ------------------------------------------------------------------------

\* Contents of model responses: one for each way through the pipeline.
ConcTexts ==
    {<<"[", "1", "]">>,
     <<"x", "[", "1", "]", "y">>,
     <<"[", "1", ",", "]">>,
     <<"[", QUOTE, "a", QUOTE, "b", QUOTE, "]">>,
     <<"[", "{", "]">>}

\* Everything but the locals of the calls and the logger.
concFrame ==
    <<family, rawText, ref, refAt, cleaned, pc, result, thrown, trace,
      normCalls, normVars, scanVars, reqVars>>

ConcInit ==
    /\ calls = NoCalls
    /\ handler = NoRequest
    /\ family = "conc"
    /\ rawText = <<>>
    /\ ref = <<>>
    /\ refAt = 0
    /\ cleaned = <<>>
    /\ pc = "idle"
    /\ result = NoVal
    /\ thrown = NoError
    /\ log = <<>>
    /\ trace = <<>>
    /\ normCalls = 0
    /\ nText = <<>>
    /\ nOut = <<>>
    /\ scanText = <<>>
    /\ scanPass = "none"
    /\ scanOut = <<>>

\* An assignment to cleaned, were cleaned a variable of the module.
StoreCandidate_Shared(c, text) ==
    [d \in Callers |-> [calls[d] EXCEPT !.cleaned = text]]

\* An assignment to the local variable cleaned of call c.
StoreCandidate(c, text) == [calls EXCEPT ![c].cleaned = text]

\* Call c is entered: let cleaned = rawText.
ConcEnter(c) ==
    /\ calls[c].pc = "idle"
    /\ \E text \in ConcTexts :
           calls' = [StoreCandidate(c, text) EXCEPT ![c].rawText = text,
                                                    ![c].pc = "extract"]
    /\ UNCHANGED <<log, concFrame>>

\* A step of call c that rewrites its cleaned.
ConcRewrite(c, at, text, next) ==
    /\ calls[c].pc = at
    /\ calls' = [StoreCandidate(c, text) EXCEPT ![c].pc = next]
    /\ UNCHANGED <<log, concFrame>>

\* A try block of call c.
ConcTryParse(c, at, n, next) ==
    LET parsed == JSONParse(calls[c].cleaned)
    IN  /\ calls[c].pc = at
        /\ IF parsed.ok
           THEN /\ calls' = [calls EXCEPT
                       ![c].result = normalizeCodeBlocksInObject(parsed.val),
                       ![c].pc = "returned"]
                /\ UNCHANGED log
           ELSE IF n < 3
           THEN /\ log' = Append(log, DebugEntry(
                            IF n = 1
                            THEN "Initial JSON parse failed, attempting sanitization..."
                            ELSE "Second JSON parse failed, attempting quote fix..."))
                /\ calls' = [calls EXCEPT ![c].pc = next]
           ELSE /\ log' = Append(log, ErrorEntry(
                            "JSON parsing failed after all sanitization attempts. Content preview: ",
                            substring(calls[c].cleaned, 0, PreviewLen)
                                \o <<".", ".", ".">>))
                /\ calls' = [calls EXCEPT
                       ![c].thrown = ExtractionError(parsed.err),
                       ![c].pc = next]
        /\ UNCHANGED concFrame

ConcExtract(c) ==
    ConcRewrite(c, "extract", ExtractBoundaries(calls[c].cleaned), "parse1")

ConcFirstParse(c) == ConcTryParse(c, "parse1", 1, "commas")

ConcFixCommas(c) ==
    ConcRewrite(c, "commas", fixTrailingCommas(calls[c].cleaned), "control")

ConcFixControl(c) ==
    ConcRewrite(c, "control",
                fixControlCharactersInStrings(calls[c].cleaned), "parse2")

ConcSecondParse(c) == ConcTryParse(c, "parse2", 2, "quotes")

ConcFixQuotes(c) ==
    ConcRewrite(c, "quotes",
                fixUnescapedQuotesInValues(calls[c].cleaned), "parse3")

ConcFinalParse(c) == ConcTryParse(c, "parse3", 3, "thrown")

ConcNext ==
    \E c \in Callers :
        \/ ConcEnter(c)
        \/ ConcExtract(c)
        \/ ConcFirstParse(c)
        \/ ConcFixCommas(c)
        \/ ConcFixControl(c)
        \/ ConcSecondParse(c)
        \/ ConcFixQuotes(c)
        \/ ConcFinalParse(c)

ConcSpec == ConcInit /\ [][ConcNext]_vars

\* ------------------------------------------------------------------------
\* The request handlers generateInterviewQuestions and
\* generateConceptExplanation.  A handler runs from the request to its
\* first await, and from each await to the next or to its end; what fetch
\* and response.json() settle with is the environment's choice.
\* ------------------------------------------------------------------------

\* A body field that was not sent.
Undefined == NoVal

\* Values of the text fields and of numberOfQuestions in a request body.
BodyTexts == {Undefined, StrVal(<<>>), StrVal(<<SPACE>>), StrVal(<<"a">>)}

BodyCounts == {Undefined, NumVal(<<"0">>), NumVal(<<"5">>)}

\* !v
Falsy(v) ==
    \/ v.t = "none"
    \/ v.t = "str" /\ v.s = <<>>
    \/ v.t = "num" /\ v.s = <<"0">>

Bodies(kind) ==
    IF kind = "questions"
    THEN [role : BodyTexts, experience : BodyTexts,
          topicsToFocus : BodyTexts, numberOfQuestions : BodyCounts]
    ELSE [question : BodyTexts]

\* The fields tested by the handler without the test of numberOfQuestions.
CheckedFields_NoCount(kind) ==
    IF kind = "questions"
    THEN {"role", "experience", "topicsToFocus"}
    ELSE {"question"}

\* The fields tested by the if statement at the head of the handler.
CheckedFields(kind) ==
    IF kind = "questions"
    THEN {"role", "experience", "topicsToFocus", "numberOfQuestions"}
    ELSE {"question"}

\* The message of the catch block of the handler.
FailureMessage(kind) ==
    IF kind = "questions" THEN "Failed to generate questions"
    ELSE "Failed to generate explanation"

\* What fetch settles with: a rejection, or a response with its ok flag.
FetchOutcomes == {"rejected", "ok", "notOk"}

\* What response.json() settles with: a rejection, a body without choices
\* (the error body of the API), or a completion with its content.
BodyReads ==
    {[read |-> "rejected", content |-> <<>>],
     [read |-> "noChoices", content |-> <<>>]}
    \cup {[read |-> "completion", content |-> text] : text \in ConcTexts}

\* res.status(status).json(...) in the handler state h.
Respond(h, status, message, error, payload) ==
    [h EXCEPT !.responses =
                  Append(@, [status |-> status, message |-> message,
                             error |-> error, payload |-> payload]),
              !.pc = "done"]

\* The catch block in the handler state h: the error message and the
\* fixed message, with 500.
Caught(h, error) == Respond(h, 500, FailureMessage(h.kind), error, NoVal)

HandlerInit ==
    /\ \E kind \in {"questions", "explanation"} :
          \E body \in Bodies(kind) :
              handler = [kind |-> kind, body |-> body, pc |-> "start",
                         responses |-> <<>>, fetchCalls |-> 0,
                         parseCalls |-> 0, upstream |-> "none",
                         read |-> "none", content |-> <<>>]
    /\ calls = NoCalls
    /\ family = "handler"
    /\ rawText = <<>>
    /\ ref = <<>>
    /\ refAt = 0
    /\ cleaned = <<>>
    /\ pc = "idle"
    /\ result = NoVal
    /\ thrown = NoError
    /\ log = <<>>
    /\ trace = <<>>
    /\ normCalls = 0
    /\ nText = <<>>
    /\ nOut = <<>>
    /\ scanText = <<>>
    /\ scanPass = "none"
    /\ scanOut = <<>>

\* From the request to the first await: the test of the body and the call
\* of fetch.
HandleRequest ==
    /\ handler.pc = "start"
    /\ IF \E f \in CheckedFields(handler.kind) : Falsy(handler.body[f])
       THEN handler' = Respond(handler, 400, "Missing required fields.", "",
                               NoVal)
       ELSE handler' = [handler EXCEPT
                          !.fetchCalls = @ + 1,
                          !.pc = "fetching"]
    /\ UNCHANGED <<callVars, normVars, scanVars, concVars>>

\* fetch settles: a rejection is caught; a response is read as JSON.
FetchSettled ==
    /\ handler.pc = "fetching"
    /\ \E outcome \in FetchOutcomes :
          LET settled == [handler EXCEPT !.upstream = outcome]
          IN  IF outcome = "rejected"
              THEN handler' = Caught(settled, "fetch rejected")
              ELSE handler' = [settled EXCEPT !.pc = "reading"]
    /\ UNCHANGED <<callVars, normVars, scanVars, concVars>>

\* That state without the test of response.ok.
AfterBody_IgnoreStatus(data) ==
    LET settled == [handler EXCEPT !.read = data.read,
                                   !.content = data.content]
    IN  IF data.read = "rejected" THEN Caught(settled, "body rejected")
        ELSE IF data.read = "noChoices" THEN Caught(settled, "TypeError")
        ELSE LET parsedData == cleanAndParseJSON(data.content)
                 called == [settled EXCEPT !.parseCalls = @ + 1]
             IN  IF parsedData.ok
                 THEN Respond(called, 200, "", "", parsedData.val)
                 ELSE Caught(called, ErrorPrefix)

\* The handler state after response.json() has settled with data: the
\* test of response.ok, cleanAndParseJSON on the content of the first
\* choice and the response with its value.
AfterBody(data) ==
    LET settled == [handler EXCEPT !.read = data.read,
                                   !.content = data.content]
    IN  IF data.read = "rejected" THEN Caught(settled, "body rejected")
        ELSE IF handler.upstream = "notOk"
        THEN Caught(settled, "Groq API error")
        ELSE IF data.read = "noChoices" THEN Caught(settled, "TypeError")
        ELSE LET parsedData == cleanAndParseJSON(data.content)
                 called == [settled EXCEPT !.parseCalls = @ + 1]
             IN  IF parsedData.ok
                 THEN Respond(called, 200, "", "", parsedData.val)
                 ELSE Caught(called, ErrorPrefix)

\* response.json() settles, and the handler runs to its end.
BodySettled ==
    /\ handler.pc = "reading"
    /\ \E data \in BodyReads : handler' = AfterBody(data)
    /\ UNCHANGED <<callVars, normVars, scanVars, concVars>>

HandlerNext ==
    \/ HandleRequest
    \/ FetchSettled
    \/ BodySettled

HandlerSpec == HandlerInit /\ [][HandlerNext]_vars

\* ------------------------------------------------------------------------
\* Properties
\* ------------------------------------------------------------------------
Finished == pc \in {"returned", "thrown"}

\* The call has returned what cleanAndParseJSON returns for the text t.
ReturnsAsFor(t) ==
    LET r == cleanAndParseJSON(t)
    IN  r.ok /\ pc = "returned" /\ result = r.val

Openers == {"[", "{"}
Closers == {"]", "}"}

\* Some [ or { of t stands before some later ] or }.
HasBracketSpan(t) ==
    \E i, j \in 1..Len(t) : i < j /\ t[i] \in Openers /\ t[j] \in Closers

\* C1 (as stated): whenever the input text is valid JSON, whatever value it
\* holds, the call returns the normalised value of the standard parse of
\* that text.
C1_AnyValidJson ==
    (Finished /\ JSONParse(rawText).ok) =>
        /\ pc = "returned"
        /\ result = normalizeCodeBlocksInObject(JSONParse(rawText).val)

\* C1 (amended): whenever the input text is valid JSON and either holds an
\* object or array or has no opening bracket before a later closing one,
\* the call returns the normalised value of the standard parse of the text.
C1_ValidJsonKept ==
    (/\ Finished
     /\ JSONParse(rawText).ok
     /\ \/ JSONParse(rawText).val.t \in {"arr", "obj"}
        \/ ~HasBracketSpan(rawText)) =>
        /\ pc = "returned"
        /\ result = normalizeCodeBlocksInObject(JSONParse(rawText).val)

\* An array with text around it has been cut to its brackets and returned.
C1_Witness ==
    /\ pc = "returned"
    /\ family = "any"
    /\ JSONParse(rawText).ok
    /\ JSONParse(rawText).val.t = "arr"
    /\ Len(cleaned) < Len(rawText)

\* Every escaped quote of the reference text is followed, after white
\* space, by something other than , } ] : and the end of the text; the bare
\* quote at its place in the raw text is followed by the same.
InnerQuotesQualify(t) ==
    /\ \E i \in 1..Len(t) : t[i] = BSLASH
    /\ \A i \in 1..Len(t) :
          t[i] = BSLASH => getNextNonSpaceChar(t, i + 1) \notin StringTerminators

\* C2: a document that is valid except for bare double quotes inside its
\* string values, none followed by , } ] : or the end, is extracted to the
\* value in which those quotes are characters of the string, whatever the
\* white space between tokens and the number of inner quotes.
C2_InnerQuotesRepaired ==
    (Finished /\ family = "quote" /\ InnerQuotesQualify(ref)) =>
        /\ pc = "returned"
        /\ result = normalizeCodeBlocksInObject(JSONParse(ref).val)

\* C3: a document that is valid except for raw line feeds and tabs inside
\* its string values is extracted to the same value as the text in which
\* they are written as escapes.
C3_RawControlsAsEscapes ==
    (Finished /\ family = "control" /\ rawText # ref) => ReturnsAsFor(ref)

\* C4: a valid document with one comma, and optional white space, inserted
\* before its closing bracket is extracted to the value of the document.
C4_TrailingCommaIgnored ==
    (Finished /\ family = "comma") => ReturnsAsFor(ref)

\* The text before and the text after ref in rawText.
Leading == SubSeq(rawText, 1, refAt - 1)
Trailing == SubSeq(rawText, refAt + Len(ref), Len(rawText))

\* C5 (as stated): whatever text stands before and after a valid document,
\* the call returns what it returns for the document alone.
C5_SurroundingTextIgnored ==
    (Finished /\ family = "wrap") => ReturnsAsFor(ref)

\* C5 (amended): when the text before the document holds no [ or { and the
\* text after it no ] or }, the call returns what it returns for the
\* document alone.
C5_BracketFreeSurroundingsIgnored ==
    (/\ Finished
     /\ family = "wrap"
     /\ \A i \in 1..Len(Leading) : Leading[i] \notin Openers
     /\ \A i \in 1..Len(Trailing) : Trailing[i] \notin Closers) =>
        ReturnsAsFor(ref)

\* A document inside a fence, with prose before and after, was returned.
C5_Witness ==
    /\ pc = "returned"
    /\ family = "wrap"
    /\ Len(Leading) > Len(FenceOpen)
    /\ Len(Trailing) > Len(FenceClose)
    /\ SubSeq(Leading, Len(Leading) - Len(FenceOpen) + 1, Len(Leading)) = FenceOpen
    /\ \A i \in 1..Len(Leading) : Leading[i] \notin Openers
    /\ \A i \in 1..Len(Trailing) : Trailing[i] \notin Closers

\* A call is in exactly one of three conditions: running, returned with a
\* value, or ended by the one extraction error.
OneOutcome ==
    /\ pc \notin {"returned", "thrown"} => result = NoVal /\ thrown = NoError
    /\ pc = "returned" => result # NoVal /\ thrown = NoError
    /\ pc = "thrown" =>
          /\ result = NoVal
          /\ thrown.name = "Error"
          /\ thrown.message.prefix = ErrorPrefix

\* The position of a running call after each number of stages.
Positions ==
    <<"extract", "parse1", "commas", "control", "parse2", "quotes", "parse3">>

\* C6: every call ends, either with a returned value or with the one
\* extraction error, never with both or with anything else: every stage
\* run moves the call to the next position or ends it, so that no call runs
\* more than seven stages, and a call is always in exactly one outcome.
C6_EndsInOneOutcome ==
    /\ OneOutcome
    /\ Len(trace) <= Len(Positions)
    /\ \/ pc = "idle" /\ trace = <<>>
       \/ Len(trace) < Len(Positions) /\ pc = Positions[Len(trace) + 1]
       \/ pc = "returned" /\ trace # <<>> /\ trace[Len(trace)] = "parse"
       \/ pc = "thrown" /\ Len(trace) = Len(Positions)

\* The unbalanced text [{] has ended in the extraction error.
C6_Witness ==
    /\ pc = "thrown"
    /\ rawText = <<"[", "{", "]">>
    /\ thrown.message.prefix = ErrorPrefix

NoBrackets(t) == \A i \in 1..Len(t) : t[i] \notin Openers \cup Closers

\* C7 (as stated): a text without any bracket is left unchanged by the
\* boundary extraction and the call ends in the extraction error.
C7_NoBracketsFails ==
    NoBrackets(rawText) =>
        /\ pc = "parse1" => cleaned = rawText
        /\ Finished => pc = "thrown"

\* The text after the three repair passes.
FinalText(t) ==
    fixUnescapedQuotesInValues(
        fixControlCharactersInStrings(fixTrailingCommas(ExtractBoundaries(t))))

\* t is a JSON scalar as written, after the comma and control-character
\* repairs, or after the quote repair as well.
ScalarAfterRepairs(t) ==
    \/ JSONParse(t).ok
    \/ JSONParse(fixControlCharactersInStrings(fixTrailingCommas(t))).ok
    \/ JSONParse(fixUnescapedQuotesInValues(
           fixControlCharactersInStrings(fixTrailingCommas(t)))).ok

\* C7 (amended): a text without any bracket is left unchanged by the
\* boundary extraction; the call never returns an object or array for it,
\* and ends in the extraction error exactly when the text is not a JSON
\* scalar, as written or after the repairs.
C7_NoBracketsScalarOrFailure ==
    NoBrackets(rawText) =>
        /\ pc = "parse1" => cleaned = rawText
        /\ pc = "returned" => result.t \notin {"arr", "obj"}
        /\ Finished => (pc = "thrown" <=> ~ScalarAfterRepairs(rawText))

\* A text of several characters and no bracket has ended in the error.
C7_Witness ==
    /\ pc = "thrown"
    /\ NoBrackets(rawText)
    /\ Len(rawText) >= 2

IsPrefix(p, t) == Len(p) <= Len(t) /\ p = SubSeq(t, 1, Len(p))

StageOrder ==
    <<"extract", "parse", "comma", "control", "parse", "quote", "parse">>

\* C9: the stages run in the one fixed order (boundary extraction, parse,
\* comma repair, control repair, parse, quote repair, parse), none twice; a
\* stage runs only when every earlier parse attempt has failed; the final
\* parse reads the input after boundary extraction, comma repair, control
\* repair and quote repair.
C9_FixedStageOrder ==
    /\ trace = SubSeq(StageOrder, 1, Len(trace))
    /\ Len(trace) > 2 => ~JSONParse(ExtractBoundaries(rawText)).ok
    /\ Len(trace) > 5 =>
          ~JSONParse(fixControlCharactersInStrings(
               fixTrailingCommas(ExtractBoundaries(rawText)))).ok
    /\ pc = "returned" => Len(trace) \in {2, 5, 7} /\ JSONParse(cleaned).ok
    /\ pc = "thrown" => Len(trace) = 7
    /\ pc \in {"parse3", "thrown"} => cleaned = FinalText(rawText)

\* The final parse is about to read a text that the repairs before the
\* second attempt and the quote repair after it have both changed.
C9_Witness ==
    /\ pc = "parse3"
    /\ trace = SubSeq(StageOrder, 1, 6)
    /\ cleaned # fixControlCharactersInStrings(
                     fixTrailingCommas(ExtractBoundaries(rawText)))
    /\ fixControlCharactersInStrings(
           fixTrailingCommas(ExtractBoundaries(rawText)))
         # ExtractBoundaries(rawText)

\* C10: normalising a normalised string changes nothing.
C10_NormalizeIdempotent ==
    Len(nOut) >= 2 => nOut[2] = nOut[1]

\* The spans <<first, last>> of the matches of the code-block pattern of
\* normalizeCodeBlocks in s, from index i on, left to right.
RECURSIVE FenceSpans(_, _)
FenceSpans(s, i) ==
    IF i > Len(s) THEN <<>>
    ELSE LET m == FenceMatchEnd(s, i)
         IN  IF m = 0 THEN FenceSpans(s, i + 1)
             ELSE <<(<<i, m>>)>> \o FenceSpans(s, m + 1)

\* The spans of the fenced blocks of s as the claim describes them: three
\* backquotes, whatever follows, up to the next three backquotes.
RECURSIVE DelimitedSpans(_, _)
DelimitedSpans(s, i) ==
    IF i > Len(s) THEN <<>>
    ELSE IF ~IsFenceAt(s, i) THEN DelimitedSpans(s, i + 1)
    ELSE LET c == FindFence(s, i + 3)
         IN  IF c = 0 THEN <<>>
             ELSE <<(<<i, c + 2>>)>> \o DelimitedSpans(s, c + 3)

\* Exactly two line feeds stand before index b of s.
BlankLineBefore(s, b) ==
    /\ b >= 3
    /\ s[b - 1] = LF
    /\ s[b - 2] = LF
    /\ (b = 3 \/ s[b - 3] # LF)

\* Exactly two line feeds stand after index e of s.
BlankLineAfter(s, e) ==
    /\ e + 2 <= Len(s)
    /\ s[e + 1] = LF
    /\ s[e + 2] = LF
    /\ (e + 2 = Len(s) \/ s[e + 3] # LF)

\* C11 (as stated): in the output of normalizeCodeBlocks every fenced block
\* (three backquotes, an optional tag, content up to the next three
\* backquotes) has exactly one blank line before it and exactly one after
\* it, wherever it stands and whatever follows its tag.
C11_EveryBlockBetweenBlankLines ==
    Len(nOut) >= 1 =>
        \A k \in 1..Len(DelimitedSpans(nOut[1], 1)) :
            LET span == DelimitedSpans(nOut[1], 1)[k]
            IN  /\ BlankLineBefore(nOut[1], span[1])
                /\ BlankLineAfter(nOut[1], span[2])

\* The place in normalizeCodeBlocks(text) of the block matched at span of
\* text: the collapse never joins a run of line feeds across the first or
\* the last backquote of a block, so the collapsed text before the block is
\* a prefix of the collapsed whole.
OutputSpan(text, span) ==
    LET before == WrapFences(SubSeq(text, 1, span[1] - 1), 1) \o <<LF, LF>>
        whole == CollapseNewlines(WrapFences(text, 1), 1)
        cut == Len(whole) - Len(TrimStart(whole))
    IN  <<Len(CollapseNewlines(before, 1)) + 1 - cut,
          Len(CollapseNewlines(before \o SubSeq(text, span[1], span[2]), 1))
             - cut>>

\* C11 (amended): every block that the pattern matches in the input (three
\* backquotes, an optional tag, a line feed, content up to the next three
\* backquotes) stands in the output, its own runs of line feeds collapsed,
\* with exactly two line feeds before it unless it starts the output, and
\* exactly two line feeds after it unless it ends the output.
C11_MatchedBlocksBetweenBlankLines ==
    Len(nOut) >= 1 =>
        \A k \in 1..Len(FenceSpans(nText, 1)) :
            LET span == FenceSpans(nText, 1)[k]
                at == OutputSpan(nText, span)
            IN  /\ 1 <= at[1] /\ at[2] <= Len(nOut[1])
                /\ SubSeq(nOut[1], at[1], at[2]) =
                      CollapseNewlines(SubSeq(nText, span[1], span[2]), 1)
                /\ at[1] = 1 \/ BlankLineBefore(nOut[1], at[1])
                /\ at[2] = Len(nOut[1]) \/ BlankLineAfter(nOut[1], at[2])

\* A block that stood inline between two letters has been normalised.
C11_Witness ==
    /\ Len(nOut) >= 1
    /\ Len(FenceSpans(nText, 1)) = 1
    /\ LET span == FenceSpans(nText, 1)[1]
       IN  /\ span[1] > 1 /\ nText[span[1] - 1] = "a"
           /\ span[2] < Len(nText) /\ nText[span[2] + 1] = "a"
           /\ BlankLineBefore(nOut[1], OutputSpan(nText, span)[1])
           /\ BlankLineAfter(nOut[1], OutputSpan(nText, span)[2])

\* Three line feeds in a row stand somewhere in s.
HasNewlineRun(s) ==
    \E i \in 1..(Len(s) - 2) : s[i] = LF /\ s[i + 1] = LF /\ s[i + 2] = LF

\* C12: the output of normalizeCodeBlocks holds no run of three or more
\* line feeds and neither starts nor ends with white space.
C12_NoNewlineRunNoOuterSpace ==
    Len(nOut) >= 1 =>
        /\ ~HasNewlineRun(nOut[1])
        /\ nOut[1] # <<>> =>
              /\ nOut[1][1] \notin RegexWs
              /\ nOut[1][Len(nOut[1])] \notin RegexWs

\* Wrapping a block made a run of three line feeds, which was collapsed to
\* the blank line the output holds, and white space was trimmed off.
C12_Witness ==
    /\ Len(nOut) >= 1
    /\ ~HasNewlineRun(nText)
    /\ HasNewlineRun(WrapFences(nText, 1))
    /\ nOut[1] # CollapseNewlines(WrapFences(nText, 1), 1)
    /\ \E i \in 1..(Len(nOut[1]) - 1) : nOut[1][i] = LF /\ nOut[1][i + 1] = LF

\* The normalised value out differs from the parsed value in only in its
\* strings: same nesting, arrays of the same length and order, objects of
\* the same keys, every number, boolean and null as it was.
RECURSIVE OnlyStringsChanged(_, _)
OnlyStringsChanged(in, out) ==
    CASE in.t = "str" -> out.t = "str"
      [] in.t = "arr" ->
            /\ out.t = "arr"
            /\ Len(out.a) = Len(in.a)
            /\ \A i \in 1..Len(in.a) : OnlyStringsChanged(in.a[i], out.a[i])
      [] in.t = "obj" ->
            /\ out.t = "obj"
            /\ {out.k[i] : i \in 1..Len(out.k)} = {in.k[i] : i \in 1..Len(in.k)}
            /\ \A i \in 1..Len(in.k) :
                  LET at == KeyIndex(out.k, in.k[i], 1)
                  IN  at # 0 /\ OnlyStringsChanged(in.a[i], out.a[at])
      [] OTHER -> out = in

\* C13: the value a call returns differs from the value parsed only in its
\* string values: nesting, lengths, order and sets of keys are those of the
\* parsed value, and numbers, booleans and null are unchanged.
C13_OnlyStringsChange ==
    pc = "returned" => OnlyStringsChanged(JSONParse(cleaned).val, result)

\* The number of backslashes that stand in a row directly before index i.
RECURSIVE BackslashesBefore(_, _)
BackslashesBefore(s, i) ==
    IF i > 1 /\ s[i - 1] = BSLASH THEN 1 + BackslashesBefore(s, i - 1) ELSE 0

\* The character at index i directly follows an unconsumed backslash: the
\* backslashes before it pair up except for the last.
AfterUnconsumedBackslash(s, i) == BackslashesBefore(s, i) % 2 = 1

\* {"answer": "Say \"Hello\""}
EscapedExample ==
    <<"{", QUOTE, "a", "n", "s", "w", "e", "r", QUOTE, ":", SPACE, QUOTE,
      "S", "a", "y", SPACE, BSLASH, QUOTE, "H", "e", "l", "l", "o", BSLASH,
      QUOTE, QUOTE, "}">>

\* Say "Hello"
EscapedExampleAnswer ==
    <<"S", "a", "y", SPACE, QUOTE, "H", "e", "l", "l", "o", QUOTE>>

\* C14: the quote repair copies a double quote that directly follows an
\* unconsumed backslash as it is, with no further backslash and in the
\* same in-string state; the text {"answer": "Say \"Hello\""} is left
\* unchanged by the pass and extracted to the answer Say "Hello".
C14_EscapedQuoteCopied ==
    /\ scanPass = "quote" =>
          \A i \in 1..Len(scanText) :
              (scanText[i] = QUOTE /\ AfterUnconsumedBackslash(scanText, i)) =>
                  LET pre == QuoteScan(scanText, 1, i - 1, ScanStart)
                      step == QuoteStep(scanText, i, pre)
                  IN  /\ step.out = <<QUOTE>>
                      /\ step.inString = pre.inString
                      /\ IsPrefix(pre.out \o <<QUOTE>>, scanOut)
                      /\ BackslashesBefore(pre.out \o <<QUOTE>>,
                                           Len(pre.out) + 1)
                            = BackslashesBefore(scanText, i)
    /\ fixUnescapedQuotesInValues(EscapedExample) = EscapedExample
    /\ cleanAndParseJSON(EscapedExample).ok
    /\ cleanAndParseJSON(EscapedExample).val =
          ObjVal(<<(<<"a", "n", "s", "w", "e", "r">>)>>,
                 <<StrVal(EscapedExampleAnswer)>>)

\* The pass has run over a string with an escaped quote inside and has
\* left the valid text as it was.
C14_Witness ==
    /\ scanPass = "quote"
    /\ scanOut = scanText
    /\ JSONParse(scanOut).ok
    /\ \E i \in 1..Len(scanText) :
          /\ scanText[i] = QUOTE
          /\ AfterUnconsumedBackslash(scanText, i)
          /\ QuoteScan(scanText, 1, i - 1, ScanStart).inString

\* The candidate of a call on the text at the position at, run on its own.
CandidateAt(text, at) ==
    LET c1 == ExtractBoundaries(text)
        cm == fixTrailingCommas(c1)
        c2 == fixControlCharactersInStrings(cm)
        c3 == fixUnescapedQuotesInValues(c2)
    IN  CASE at \in {"idle", "extract"} -> text
          [] at \in {"parse1", "commas"} -> c1
          [] at = "control" -> cm
          [] at \in {"parse2", "quotes"} -> c2
          [] at = "parse3" -> c3
          [] OTHER -> cleanAndParseJSON(text).text

\* The number of entries a call on the text writes to the logger, run on
\* its own.
EntriesOf(text) ==
    LET seq == cleanAndParseJSON(text)
    IN  IF seq.ok THEN seq.attempt - 1 ELSE 3

RECURSIVE EntriesOfCalls(_)
EntriesOfCalls(n) ==
    IF n = 0 THEN 0 ELSE EntriesOf(calls[n].rawText) + EntriesOfCalls(n - 1)

CallDone(c) == calls[c].pc \in {"returned", "thrown"}

\* C15: in every interleaving of the calls in flight, each call has at
\* every position the candidate, and at its end the outcome, that the
\* call has when it runs alone on its input, and the logger holds as many
\* entries as the calls write one after another.
C15_SameOutcomeAsSequential ==
    /\ \A c \in Callers :
          LET seq == cleanAndParseJSON(calls[c].rawText)
          IN  /\ calls[c].cleaned = CandidateAt(calls[c].rawText, calls[c].pc)
              /\ calls[c].pc = "returned" =>
                    seq.ok /\ calls[c].result = seq.val
              /\ calls[c].pc = "thrown" =>
                    ~seq.ok /\ calls[c].thrown = seq.error
              /\ (calls[c].pc # "returned") => calls[c].result = NoVal
              /\ (calls[c].pc # "thrown") => calls[c].thrown = NoError
    /\ (\A c \in Callers : CallDone(c)) =>
          Len(log) = EntriesOfCalls(NumCallers)

\* All calls have ended, two of them on different inputs with different
\* outcomes, and their steps were interleaved: the first parse of both had
\* failed before either went on to its second.
C15_Witness ==
    /\ \A c \in Callers : CallDone(c)
    /\ \E c, d \in Callers :
          /\ calls[c].rawText # calls[d].rawText
          /\ calls[c].pc = "returned"
          /\ calls[d].pc = "thrown"
    /\ Len(log) >= 2
    /\ log[1] = log[2]
    /\ log[1].level = "debug"

\* The candidate that the step at a position makes of the candidate c.
NextCandidate(at, c) ==
    CASE at = "extract" -> ExtractBoundaries(c)
      [] at = "commas" -> fixTrailingCommas(c)
      [] at = "control" -> fixControlCharactersInStrings(c)
      [] at = "quotes" -> fixUnescapedQuotesInValues(c)
      [] OTHER -> c

\* C16: no step of a call changes rawText, and the candidate after a step
\* is the candidate before it or what the repair pass at that position
\* makes of the candidate before it.
C16_InputNeverChanged ==
    [][pc # "idle" =>
          /\ rawText' = rawText
          /\ cleaned' = NextCandidate(pc, cleaned)]_vars

\* A call has gone through every repair pass; the extraction and a later
\* pass have each made a new candidate, and the argument is as it was.
C16_Witness ==
    /\ pc \in {"returned", "thrown"}
    /\ Len(trace) = 7
    /\ cleaned # rawText
    /\ ExtractBoundaries(rawText) # rawText
    /\ cleaned # ExtractBoundaries(rawText)

\* The indices of text at which one of the characters of the set stands.
IndicesOf(text, chars) == {i \in 1..Len(text) : text[i] \in chars}

SmallestOf(S) == CHOOSE x \in S : \A y \in S : x <= y

LargestOf(S) == CHOOSE x \in S : \A y \in S : x >= y

\* The first indices of [ and of {, of those that text holds.
FirstOpeners(text) ==
    {SmallestOf(IndicesOf(text, {c})) :
        c \in {o \in Openers : IndicesOf(text, {o}) # {}}}

\* The last indices of ] and of }, of those that text holds.
LastClosers(text) ==
    {LargestOf(IndicesOf(text, {c})) :
        c \in {o \in Closers : IndicesOf(text, {o}) # {}}}

\* C17: the text after the boundary extraction is the span of the input
\* from the smaller of its first [ and first { to the larger of its last ]
\* and last }, both included, when both exist and the end lies after the
\* start, and the input itself otherwise.
C17_BoundaryExtraction ==
    pc = "parse1" =>
        LET starts == FirstOpeners(rawText)
            ends == LastClosers(rawText)
        IN  IF starts # {} /\ ends # {}
                 /\ LargestOf(ends) > SmallestOf(starts)
            THEN cleaned = SubSeq(rawText, SmallestOf(starts),
                                  LargestOf(ends))
            ELSE cleaned = rawText

\* An input with both kinds of closers, the last of one kind before the
\* last of the other, of which the extraction has cut something off.
C17_Witness ==
    /\ pc = "parse1"
    /\ Cardinality(LastClosers(rawText)) = 2
    /\ FirstOpeners(rawText) # {}
    /\ cleaned # rawText
    /\ cleaned[Len(cleaned)] \in Closers
    /\ cleaned[1] \in Openers

\* The character at index i of s lies inside a string literal: a scan that
\* follows quotes and backslashes is in a string when it comes to it.
InStringAt(s, i) == ControlScan(s, 1, i - 1, ScanStart).inString

\* C18: the trailing-comma repair turns every valid JSON text into a text
\* that parses to the same value, and on every text it removes no
\* character that lies inside a string literal.
C18_CommaRepairKeepsStrings ==
    scanPass = "comma" =>
        /\ JSONParse(scanText).ok =>
              /\ JSONParse(scanOut).ok
              /\ JSONParse(scanOut).val = JSONParse(scanText).val
        /\ \A i \in 1..Len(scanText) :
              CommaMatchesAt(scanText, i) => ~InStringAt(scanText, i)

\* The indices after i of the characters of s that are not white space.
NonSpaceAfter(s, i) == {j \in (i + 1)..Len(s) : s[j] \notin RegexWs}

\* The character at index i of s is followed, white space aside, by one of
\* the characters of the set.
FollowedBy(s, i, chars) ==
    /\ NonSpaceAfter(s, i) # {}
    /\ s[SmallestOf(NonSpaceAfter(s, i))] \in chars

CommaBeforeCloser(s, i) == s[i] = "," /\ FollowedBy(s, i, Closers)

\* The indices of s, in order, that do not hold a comma before a closer.
RECURSIVE KeptIndices(_, _)
KeptIndices(s, i) ==
    IF i > Len(s) THEN <<>>
    ELSE (IF CommaBeforeCloser(s, i) THEN <<>> ELSE <<i>>)
         \o KeptIndices(s, i + 1)

\* C19: after the trailing-comma repair the text holds no comma that is
\* followed, white space aside, by a closing ] or }.
C19_NoCommaBeforeCloser ==
    scanPass = "comma" =>
        \A j \in 1..Len(scanOut) : ~CommaBeforeCloser(scanOut, j)

\* C19 (amended): the repair removes exactly the commas that are followed
\* in the input, white space aside, by a closing ] or }; a comma of its
\* result that is followed by a closer was followed in the input, white
\* space aside, by another comma.
C19_OnlyCommasBeforeCommasLeft ==
    scanPass = "comma" =>
        LET kept == KeptIndices(scanText, 1)
        IN  /\ scanOut = [j \in 1..Len(kept) |-> scanText[kept[j]]]
            /\ \A j \in 1..Len(scanOut) :
                  CommaBeforeCloser(scanOut, j) =>
                      FollowedBy(scanText, kept[j], {","})

\* The repair has run over a run of commas before a closer and has removed
\* the last of them only.
C19_Witness ==
    /\ scanPass = "comma"
    /\ scanOut # scanText
    /\ \E j \in 1..Len(scanOut) : CommaBeforeCloser(scanOut, j)
    /\ \E i \in 1..Len(scanText) :
          /\ CommaBeforeCloser(scanText, i)
          /\ i > 1
          /\ scanText[i - 1] = ","

\* What becomes of a control character inside a string literal: an escape
\* of two characters for a line feed, a carriage return and a tab, nothing
\* for any other.
EscapeOfControl(c) ==
    IF c = LF THEN <<BSLASH, "n">>
    ELSE IF c = CR THEN <<BSLASH, "r">>
    ELSE IF c = TAB THEN <<BSLASH, "t">>
    ELSE <<>>

\* C20: after the control-character repair no character with a code below
\* 0x20 stands inside a string literal; each one that stood there has
\* become its escape or has been dropped.
C20_NoControlInStrings ==
    scanPass = "control" =>
        /\ \A i \in 1..Len(scanText) :
              (InStringAt(scanText, i) /\ scanText[i] \in ControlChars) =>
                  LET pre == ControlScan(scanText, 1, i - 1, ScanStart)
                  IN  IsPrefix(pre.out \o EscapeOfControl(scanText[i]),
                               scanOut)
        /\ \A j \in 1..Len(scanOut) :
              InStringAt(scanOut, j) => scanOut[j] \notin ControlChars

\* C20 (amended): a control character inside a string literal that does
\* not directly follow an unconsumed backslash has become its escape or
\* has been dropped; one that directly follows an unconsumed backslash is
\* copied as it is, and no other control character stands inside a string
\* literal after the repair.
C20_NoUnescapedControlInStrings ==
    scanPass = "control" =>
        /\ \A i \in 1..Len(scanText) :
              (InStringAt(scanText, i) /\ scanText[i] \in ControlChars) =>
                  LET pre == ControlScan(scanText, 1, i - 1, ScanStart)
                  IN  IsPrefix(pre.out \o
                                 (IF AfterUnconsumedBackslash(scanText, i)
                                  THEN <<scanText[i]>>
                                  ELSE EscapeOfControl(scanText[i])),
                               scanOut)
        /\ \A j \in 1..Len(scanOut) :
              (InStringAt(scanOut, j) /\ scanOut[j] \in ControlChars) =>
                  AfterUnconsumedBackslash(scanOut, j)

\* The repair has run over a string literal with a control character
\* after a backslash, which it has kept, and one after another character,
\* which it has replaced or dropped.
C20_Witness ==
    /\ scanPass = "control"
    /\ scanOut # scanText
    /\ \E i, j \in 1..Len(scanText) :
          /\ InStringAt(scanText, i)
          /\ scanText[i] \in ControlChars
          /\ AfterUnconsumedBackslash(scanText, i)
          /\ InStringAt(scanText, j)
          /\ scanText[j] \in ControlChars
          /\ ~AfterUnconsumedBackslash(scanText, j)
    /\ \E j \in 1..Len(scanOut) :
          InStringAt(scanOut, j) /\ scanOut[j] \in ControlChars

\* The character at index i of s lies inside a string value when a bare
\* quote inside a value is taken for content: the string ends only at a
\* quote that is followed, white space aside, by , } ] : or the end.
InValueAt(s, i) == QuoteScan(s, 1, i - 1, ScanStart).inString

\* The control-character repair has copied the character at index i of
\* scanText as it is.
ControlCopiedAt(i) ==
    LET pre == ControlScan(scanText, 1, i - 1, ScanStart)
    IN  IsPrefix(pre.out \o <<scanText[i]>>, scanOut)

\* C21: the control-character repair copies every character outside a
\* string literal unchanged and in order, also when the input has bare
\* quotes inside its string values: white space between tokens is never
\* rewritten into an escape.
C21_OutsideStringsCopied ==
    scanPass = "control" =>
        /\ \A i \in 1..Len(scanText) :
              ~InStringAt(scanText, i) => ControlCopiedAt(i)
        /\ \A i \in 1..Len(scanText) :
              ~InValueAt(scanText, i) => ControlCopiedAt(i)

\* The quote at index i of s is followed, skipping spaces, tabs, line
\* feeds and carriage returns, by , } ] or : or by the end of s.
TerminatorFollows(s, i) ==
    LET rest == {j \in (i + 1)..Len(s) : s[j] \notin {SPACE, TAB, LF, CR}}
    IN  rest = {} \/ s[SmallestOf(rest)] \in {",", "}", "]", ":"}

\* What the quote repair does with the quote at index i of scanText: the
\* characters it writes for it, and whether it is in a string after it.
QuoteHandledAs(i, written, inside) ==
    LET pre == QuoteScan(scanText, 1, i - 1, ScanStart)
        step == QuoteStep(scanText, i, pre)
    IN  /\ step.out = written
        /\ step.inString = inside
        /\ IsPrefix(pre.out \o written, scanOut)

\* An unescaped quote met inside a string ends the string exactly when a
\* terminator follows it, and is written as backslash-quote otherwise.
InnerQuotesByLookahead ==
    \A i \in 1..Len(scanText) :
        (/\ scanText[i] = QUOTE
         /\ InValueAt(scanText, i)
         /\ ~AfterUnconsumedBackslash(scanText, i)) =>
            IF TerminatorFollows(scanText, i)
            THEN QuoteHandledAs(i, <<QUOTE>>, FALSE)
            ELSE QuoteHandledAs(i, <<BSLASH, QUOTE>>, TRUE)

\* C22: an unescaped quote met inside a string ends the string exactly
\* when , } ] : or the end follows it, white space skipped, and is written
\* as backslash-quote otherwise; every quote met outside a string opens a
\* string and is written unchanged.
C22_QuotesByLookahead ==
    scanPass = "quote" =>
        /\ InnerQuotesByLookahead
        /\ \A i \in 1..Len(scanText) :
              (scanText[i] = QUOTE /\ ~InValueAt(scanText, i)) =>
                  QuoteHandledAs(i, <<QUOTE>>, TRUE)

\* C22 (amended): as C22, with the quotes met outside a string that open
\* a string being the unescaped ones; a quote that directly follows an
\* unconsumed backslash outside a string is copied and opens nothing.
C22_UnescapedQuotesByLookahead ==
    scanPass = "quote" =>
        /\ InnerQuotesByLookahead
        /\ \A i \in 1..Len(scanText) :
              (scanText[i] = QUOTE /\ ~InValueAt(scanText, i)) =>
                  IF AfterUnconsumedBackslash(scanText, i)
                  THEN QuoteHandledAs(i, <<QUOTE>>, FALSE)
                  ELSE QuoteHandledAs(i, <<QUOTE>>, TRUE)

\* The repair has met an opening quote, a quote inside the string that it
\* has escaped, and a quote before a terminator that has ended the string.
C22_Witness ==
    /\ scanPass = "quote"
    /\ \E i, j, k \in 1..Len(scanText) :
          /\ i < j
          /\ j < k
          /\ scanText[i] = QUOTE
          /\ ~InValueAt(scanText, i)
          /\ ~AfterUnconsumedBackslash(scanText, i)
          /\ scanText[j] = QUOTE
          /\ InValueAt(scanText, j)
          /\ ~TerminatorFollows(scanText, j)
          /\ QuoteHandledAs(j, <<BSLASH, QUOTE>>, TRUE)
          /\ scanText[k] = QUOTE
          /\ InValueAt(scanText, k)
          /\ k < Len(scanText)
          /\ QuoteHandledAs(k, <<QUOTE>>, FALSE)

\* The machine with the states Outside, InString and Escaped, in which a
\* backslash outside a string is an ordinary character: what it writes for
\* the characters of s from index i on, entered in a state, as the
\* control-character repair ...
RECURSIVE ThreeStateControl(_, _, _)
ThreeStateControl(s, i, state) ==
    IF i > Len(s) THEN <<>>
    ELSE IF state = "Escaped" THEN
        <<s[i]>> \o ThreeStateControl(s, i + 1, "InString")
    ELSE IF state = "InString" THEN
        IF s[i] = BSLASH THEN
            <<s[i]>> \o ThreeStateControl(s, i + 1, "Escaped")
        ELSE IF s[i] = QUOTE THEN
            <<s[i]>> \o ThreeStateControl(s, i + 1, "Outside")
        ELSE IF s[i] \in ControlChars THEN
            EscapeOfControl(s[i]) \o ThreeStateControl(s, i + 1, "InString")
        ELSE
            <<s[i]>> \o ThreeStateControl(s, i + 1, "InString")
    ELSE IF s[i] = QUOTE THEN
        <<s[i]>> \o ThreeStateControl(s, i + 1, "InString")
    ELSE
        <<s[i]>> \o ThreeStateControl(s, i + 1, "Outside")

\* ... and as the quote repair.
RECURSIVE ThreeStateQuote(_, _, _)
ThreeStateQuote(s, i, state) ==
    IF i > Len(s) THEN <<>>
    ELSE IF state = "Escaped" THEN
        <<s[i]>> \o ThreeStateQuote(s, i + 1, "InString")
    ELSE IF state = "InString" THEN
        IF s[i] = BSLASH THEN
            <<s[i]>> \o ThreeStateQuote(s, i + 1, "Escaped")
        ELSE IF s[i] = QUOTE THEN
            IF TerminatorFollows(s, i)
            THEN <<QUOTE>> \o ThreeStateQuote(s, i + 1, "Outside")
            ELSE <<BSLASH, QUOTE>> \o ThreeStateQuote(s, i + 1, "InString")
        ELSE
            <<s[i]>> \o ThreeStateQuote(s, i + 1, "InString")
    ELSE IF s[i] = QUOTE THEN
        <<s[i]>> \o ThreeStateQuote(s, i + 1, "InString")
    ELSE
        <<s[i]>> \o ThreeStateQuote(s, i + 1, "Outside")

\* The flags of the pass that has run, after the first n characters of
\* scanText.
FlagsAfter(n) ==
    IF scanPass = "quote" THEN QuoteScan(scanText, 1, n, ScanStart)
    ELSE ControlScan(scanText, 1, n, ScanStart)

ThreeStateOutput ==
    IF scanPass = "quote" THEN ThreeStateQuote(scanText, 1, "Outside")
    ELSE ThreeStateControl(scanText, 1, "Outside")

\* C23: in every scan state of the two passes the escape flag is set only
\* while the in-string flag is set, and the passes write what the machine
\* of the three states Outside, InString and Escaped writes.
C23_ThreeScanStates ==
    scanPass \in {"control", "quote"} =>
        /\ \A n \in 0..Len(scanText) :
              FlagsAfter(n).escaped => FlagsAfter(n).inString
        /\ scanOut = ThreeStateOutput

\* C23 (amended): the escape flag is set after every unconsumed backslash,
\* inside a string or outside, so that the scan has four states; the
\* passes write what the machine of three states writes on every text in
\* which no quote directly follows an unconsumed backslash outside a
\* string.
C23_FourScanStates ==
    scanPass \in {"control", "quote"} =>
        /\ \A n \in 0..Len(scanText) :
              FlagsAfter(n).escaped
                  <=> AfterUnconsumedBackslash(scanText, n + 1)
        /\ (\A i \in 1..Len(scanText) :
               ~(/\ scanText[i] = QUOTE
                 /\ AfterUnconsumedBackslash(scanText, i)
                 /\ ~FlagsAfter(i - 1).inString))
              => scanOut = ThreeStateOutput

\* A pass has met a backslash outside a string, has not met a quote
\* directly after such a backslash, and has rewritten something later in
\* the text.
C23_Witness ==
    /\ scanPass \in {"control", "quote"}
    /\ scanOut # scanText
    /\ \E n \in 1..Len(scanText) :
          FlagsAfter(n).escaped /\ ~FlagsAfter(n).inString
    /\ \A i \in 1..Len(scanText) :
          ~(/\ scanText[i] = QUOTE
            /\ AfterUnconsumedBackslash(scanText, i)
            /\ ~FlagsAfter(i - 1).inString)
    /\ scanOut = ThreeStateOutput

\* C24: a call that returns has normalised once, and what it returns is
\* the normalised value of the text that parsed, at whichever attempt; a
\* call that has not returned, or that has thrown, has normalised nothing,
\* and the working text is at every position the text that the repairs
\* alone make of the input.
C24_NormalizedOnceOnSuccess ==
    /\ pc = "returned" =>
          /\ normCalls = 1
          /\ JSONParse(cleaned).ok
          /\ result = normalizeCodeBlocksInObject(JSONParse(cleaned).val)
    /\ pc # "returned" =>
          /\ normCalls = 0
          /\ result = NoVal
    /\ pc # "idle" => cleaned = CandidateAt(rawText, pc)

\* A call has returned at its third attempt a value that the
\* normalisation has changed.
C24_Witness ==
    /\ pc = "returned"
    /\ Len(trace) = 7
    /\ normCalls = 1
    /\ result # JSONParse(cleaned).val

\* The upstream call of the request has failed, or the completion text it
\* has brought makes cleanAndParseJSON fail.
RequestFailed ==
    \/ handler.upstream \in {"rejected", "notOk"}
    \/ /\ handler.read = "completion"
       /\ ~cleanAndParseJSON(handler.content).ok

\* C25: a request whose upstream call fails or whose completion text makes
\* cleanAndParseJSON fail gets exactly one response, with status 500 and
\* the fixed message of its handler, and never a response with status 200.
C25_FailureAnsweredOnceWith500 ==
    RequestFailed =>
        /\ Len(handler.responses) <= 1
        /\ \A i \in 1..Len(handler.responses) :
              handler.responses[i].status # 200
        /\ handler.pc = "done" =>
              /\ Len(handler.responses) = 1
              /\ handler.responses[1].status = 500
              /\ handler.kind = "questions" =>
                    handler.responses[1].message
                        = "Failed to generate questions"
              /\ handler.kind = "explanation" =>
                    handler.responses[1].message
                        = "Failed to generate explanation"

\* The upstream call of a generate-explanation request has brought a text
\* on which cleanAndParseJSON fails, and the handler has answered.
C25_Witness ==
    /\ handler.kind = "explanation"
    /\ handler.pc = "done"
    /\ handler.upstream = "ok"
    /\ handler.read = "completion"
    /\ ~cleanAndParseJSON(handler.content).ok
    /\ handler.parseCalls = 1
    /\ Len(handler.responses) = 1
    /\ handler.responses[1].status = 500

\* The fields that a request of the kind must carry.
RequiredFields(kind) ==
    IF kind = "questions"
    THEN {"role", "experience", "topicsToFocus", "numberOfQuestions"}
    ELSE {"question"}

\* A required field of the request is missing or is the empty string.
FieldMissingOrEmpty ==
    \E f \in RequiredFields(handler.kind) :
        \/ handler.body[f] = Undefined
        \/ handler.body[f] = StrVal(<<>>)

RECURSIVE WithoutIndices(_, _, _)
WithoutIndices(s, drop, i) ==
    IF i > Len(s) THEN <<>>
    ELSE (IF i \in drop THEN <<>> ELSE <<s[i]>>)
         \o WithoutIndices(s, drop, i + 1)

\* The indices of s that hold a backslash directly before a double quote.
BackslashesBeforeQuotes(s) ==
    {j \in 1..(Len(s) - 1) : s[j] = BSLASH /\ s[j + 1] = QUOTE}

\* The sets of backslashes before quotes of the text out without which out
\* is the text in.
InsertionsBetween(in, out) ==
    {D \in SUBSET BackslashesBeforeQuotes(out) :
        WithoutIndices(out, D, 1) = in}

\* C27: the output of the quote repair is its input with backslashes
\* inserted directly before double quotes and nothing else changed: the
\* output without those backslashes is the input.
C27_OnlyBackslashesInserted ==
    scanPass = "quote" => InsertionsBetween(scanText, scanOut) # {}

\* The repair has inserted a backslash into a text that had a backslash
\* of its own and a character that is neither quote nor backslash.
C27_Witness ==
    /\ scanPass = "quote"
    /\ scanOut # scanText
    /\ \E i \in 1..Len(scanText) : scanText[i] = BSLASH
    /\ \E i \in 1..Len(scanText) : scanText[i] \notin {QUOTE, BSLASH}
    /\ InsertionsBetween(scanText, scanOut) # {}

\* Every unescaped quote of s that the scan meets inside a string is
\* followed, white space skipped, by , } ] : or the end of s.
EveryInnerQuoteTerminates(s) ==
    \A i \in 1..Len(s) :
        (/\ s[i] = QUOTE
         /\ InValueAt(s, i)
         /\ ~AfterUnconsumedBackslash(s, i)) => TerminatorFollows(s, i)

\* C28: the quote repair returns every valid JSON text as it is, and every
\* text in which each quote that ends a string is followed, white space
\* skipped, by , } ] : or the end.
C28_ValidJsonUnchanged ==
    scanPass = "quote" =>
        /\ JSONParse(scanText).ok => scanOut = scanText
        /\ JSONParse(scanText).ok => EveryInnerQuoteTerminates(scanText)
        /\ EveryInnerQuoteTerminates(scanText) => scanOut = scanText

\* The repair has run over a valid object whose string value holds an
\* escaped quote and is followed by white space.
C28_Witness ==
    /\ scanPass = "quote"
    /\ JSONParse(scanText).ok
    /\ JSONParse(scanText).val.t = "obj"
    /\ scanOut = scanText
    /\ \E i \in 2..Len(scanText) :
          scanText[i] = QUOTE /\ scanText[i - 1] = BSLASH
    /\ \E i \in 1..(Len(scanText) - 1) :
          /\ scanText[i] = QUOTE
          /\ scanText[i + 1] \in {SPACE, LF}
          /\ ~AfterUnconsumedBackslash(scanText, i)
          /\ InValueAt(scanText, i)

\* C29: the quote repair applied to its own output returns that output:
\* the quotes it has escaped are skipped on the second scan, and every
\* other quote opens or ends a string as on the first.
C29_QuoteRepairIdempotent ==
    scanPass = "quote" =>
        /\ fixUnescapedQuotesInValues(scanOut) = scanOut
        /\ \A i \in 1..Len(scanText) :
              scanText[i] = QUOTE =>
                  LET pre == QuoteScan(scanText, 1, i - 1, ScanStart)
                      j == Len(pre.out)
                             + Len(QuoteStep(scanText, i, pre).out)
                  IN  /\ scanOut[j] = QUOTE
                      /\ QuoteScan(scanOut, 1, j, ScanStart).inString
                           = QuoteScan(scanText, 1, i, ScanStart).inString

\* The repair has escaped a quote, and its output holds a quote that opens
\* a string and one that ends it.
C29_Witness ==
    /\ scanPass = "quote"
    /\ scanOut # scanText
    /\ fixUnescapedQuotesInValues(scanOut) = scanOut
    /\ ~QuoteScan(scanOut, 1, Len(scanOut), ScanStart).inString
    /\ \E i \in 1..Len(scanText) : scanText[i] \notin {QUOTE, BSLASH}

====
